---- MODULE Spec2Model ----
(***************************************************************************)
(* streamdeck-ui-node: the interaction state machine of StreamDeck, Page   *)
(* and Key (down / hold / up / click / held / activity / idle), the        *)
(* attachment relation of keys to (index, page) pairs, and the render      *)
(* queue that serialises Key.draw and Page.draw jobs.                      *)
(*                                                                         *)
(* Time is discrete.  A pending setTimeout is the number of ticks left     *)
(* before it is due; a due timer runs before time advances and before any  *)
(* new input is handled (the timers phase of the event loop runs first).   *)
(* A JavaScript Map is a function whose DOMAIN is the set of its keys,     *)
(* except Page._keys, whose iteration order is observable and which is a   *)
(* sequence of <<index, key>> entries in insertion order.  An optional     *)
(* number is <<>> (undefined) or <<n>>.                                     *)
(***************************************************************************)
EXTENDS Integers, Sequences, FiniteSets, TLC

----------------------------------------------------------------------------
(* The universe *)

\* Largest HOLD_TIME / PRESS_TIME an entity is configured with, in ticks.
MaxHoldTime == 1

\* Largest number of render jobs a busy period of the graphics queue has seen
\* when one more call is made.
MaxQueue == 2

\* Largest number of transport writes issued and not yet completed.
MaxInflight == 2

PANEL_ROW_COUNT == 1
PANEL_COLUMN_COUNT == 2
KEY_COUNT == PANEL_ROW_COUNT * PANEL_COLUMN_COUNT

Indexes == 0 .. (KEY_COUNT - 1)
Pages == {"p1", "p2"}
Keys == {"k1", "k2"}
KeyImages == {"imgA", "imgB"}
PanelImages == {"imgP"}
Images == KeyImages \cup PanelImages
SD == "sd"
Entities == {SD} \cup Pages \cup Keys
Pairs == Indexes \X Pages

Undefined == "undefined"

VARIABLES
  HOLD_TIME,            \* [Entities -> optional number]: StreamDeck / Page / Key .HOLD_TIME
  PRESS_TIME,           \* [Keys -> number]: Key.PRESS_TIME
  IDLE_TIME,            \* [Entities -> number]: .IDLE_TIME
  focusedPage,          \* StreamDeck._focusedPage
  defaultPage,          \* StreamDeck._defaultPage
  brightness,           \* [{SD} \cup Pages -> optional number]: ._brightness in thousandths
  nodeBrightness,       \* the argument of the last STREAMDECK_NODE.setBrightness
  keys,                 \* [Pages -> Seq(<<index, key>>)]: Page._keys
  destroyed,            \* [Entities -> BOOLEAN]: ._destroyed
  sdHoldTimeoutIds,     \* StreamDeck._holdTimeoutIds: index -> [rem, page, key]
  downPages,            \* StreamDeck._downPages: index -> page | undefined
  downKeys,             \* StreamDeck._downKeys: index -> key | undefined
  sdHoldIndexes,        \* StreamDeck._holdIndexes
  pageHoldTimeoutIds,   \* [Pages -> (index -> [rem, key])]: Page._holdTimeoutIds
  downIndexes,          \* [Pages -> SUBSET Indexes]: Page._downIndexes
  pageHoldIndexes,      \* [Pages -> SUBSET Indexes]: Page._holdIndexes
  keyHoldTimeoutIds,    \* [Keys -> (<<index, page>> -> rem)]: Key._holdTimeoutIds
  pressTimeoutIds,      \* [Keys -> (<<index, page>> -> rem)]: Key._pressTimeoutIds
  downStates,           \* [Keys -> SUBSET Pairs]: Key._downStates
  holdStates,           \* [Keys -> SUBSET Pairs]: Key._holdStates
  pressStates,          \* [Keys -> SUBSET Pairs]: Key._pressStates
  idleTimeoutId,        \* [Entities -> optional rem]: ._idleTimeoutId
  image,                \* [Keys -> Images \cup {Undefined}]: Key._image
  backgroundImage,      \* [Keys \cup Pages -> Images \cup {Undefined}]: ._backgroundImage
  listeners,            \* [Images -> Seq(Keys \cup Pages)]: whose boundDraw listens to 'frameUpdated'
  gq,                   \* StreamDeck._graphicsQueue: the jobs not yet started
  running,              \* the jobs of the graphics queue that have started and not finished
  tasks,                \* the compositions (awaited sharp calls) in progress, one per buffer
  inflight,             \* transport writes issued and not yet completed
  log,                  \* [Indexes -> Seq(event)]: what observers of pages and keys saw in the press
                        \* of the slot, kept until a slot goes down after its release
  elapsed,              \* [Indexes -> Nat]: ticks the slot was down in that press
  intact,               \* [Indexes -> BOOLEAN]: the pressed pair kept its key during that press
  loaded,               \* the Images whose getFrame() returns a frame
  frameCount,           \* [Images -> number]: Image.frameCount, read from the metadata
  loopCount,            \* [Images -> number]: Image.loopCount, read from the metadata
  frames,               \* [Images -> number]: Image._frames.length, the frames loaded so far
  animate,              \* [Images -> optional BOOLEAN]: Image._animate
  nextFrameTimeoutId,   \* [Images -> undefined | "pending" | "fired"]: Image._nextFrameTimeoutId
                        \* and whether its timer is still to fire
  currentFrame,         \* [Images -> number]: Image.currentFrame
  currentLoop,          \* [Images -> number]: Image.currentLoop
  loadListeners,        \* [Images -> Seq([f, l])]: the loadListeners of nextFrame that listen
                        \* to 'frameLoaded', with the frame and loop each one captured
  imageDestroyed,       \* [Images -> BOOLEAN]: Image.destroyed
  advances,             \* [Images -> optional number]: the frame changes made by nextFrame
                        \* since frame 0 of loop 0, undefined after setCurrentFrame
  frame,                \* [Keys -> Images \cup {Undefined}]: the Image Key._frame came from
  backgroundFrame,      \* [Keys \cup Pages -> Images \cup {Undefined}]: same for ._backgroundFrame
  lastJobs,             \* the render jobs the last step pushed on the graphics queue and
                        \* those it started, in order; the owners of the compositions and
                        \* writes that failed in it, and the entities it emitted error,
                        \* activity and idle on
  calls,                \* the number of calls of the public API so far
  lastCall              \* the last call of the public API: its arguments, whether it threw,
                        \* what it returned, the attach / detach notifications and the
                        \* render jobs it produced

cfgVars == <<HOLD_TIME, PRESS_TIME, IDLE_TIME, frameCount, loopCount>>
imageVars == <<frames, animate, nextFrameTimeoutId, currentFrame, currentLoop,
               loadListeners, imageDestroyed, advances>>
vars == <<HOLD_TIME, PRESS_TIME, IDLE_TIME, frameCount, loopCount, frames, animate,
          nextFrameTimeoutId, currentFrame, currentLoop, loadListeners,
          imageDestroyed, advances, focusedPage, defaultPage, brightness,
          nodeBrightness, keys, destroyed, sdHoldTimeoutIds, downPages, downKeys, sdHoldIndexes,
          pageHoldTimeoutIds, downIndexes, pageHoldIndexes, keyHoldTimeoutIds,
          pressTimeoutIds, downStates, holdStates, pressStates, idleTimeoutId,
          image, backgroundImage, listeners, gq, running, tasks, inflight,
          log,
          elapsed, intact, loaded, frame, backgroundFrame, lastJobs, calls, lastCall>>

----------------------------------------------------------------------------
(* Maps and optional numbers *)

EmptyMap == <<>>
Has(m, x) == x \in DOMAIN m
MapSet(m, x, v) == [y \in (DOMAIN m) \cup {x} |-> IF y = x THEN v ELSE m[y]]
MapDelete(m, x) == [y \in (DOMAIN m) \ {x} |-> m[y]]
MapGet(m, x) == IF x \in DOMAIN m THEN m[x] ELSE Undefined

IsNumber(v) == v # <<>>
Positive(v) == v # <<>> /\ v[1] > 0

\* Page._keys, a Map in insertion order
KeysHas(ks, i) == \E n \in 1 .. Len(ks) : ks[n][1] = i
KeysGet(ks, i) ==
  IF KeysHas(ks, i)
  THEN ks[CHOOSE n \in 1 .. Len(ks) : ks[n][1] = i][2]
  ELSE Undefined
\* Variant: a key lives in one slot of a page, attaching it again moves it
KeysSet_MovesKey(ks, i, k) ==
  Append(SelectSeq(ks, LAMBDA e : e[1] # i /\ e[2] # k), <<i, k>>)
KeysSet(ks, i, k) ==
  IF KeysHas(ks, i)
  THEN [n \in 1 .. Len(ks) |-> IF ks[n][1] = i THEN <<i, k>> ELSE ks[n]]
  ELSE Append(ks, <<i, k>>)
KeysDelete(ks, i) == SelectSeq(ks, LAMBDA e : e[1] # i)
KeysValues(ks) == {ks[n][2] : n \in 1 .. Len(ks)}
KeyAt(s, p, i) == KeysGet(s.keys[p], i)

----------------------------------------------------------------------------
(* The mutable state as one record, so that a handler is a function from   *)
(* state to state and a handler that calls another composes them.          *)

State ==
  [focusedPage |-> focusedPage, defaultPage |-> defaultPage, keys |-> keys,
   brightness |-> brightness, nodeBrightness |-> nodeBrightness,
   destroyed |-> destroyed, sdHoldTimeoutIds |-> sdHoldTimeoutIds,
   downPages |-> downPages, downKeys |-> downKeys,
   sdHoldIndexes |-> sdHoldIndexes,
   pageHoldTimeoutIds |-> pageHoldTimeoutIds, downIndexes |-> downIndexes,
   pageHoldIndexes |-> pageHoldIndexes,
   keyHoldTimeoutIds |-> keyHoldTimeoutIds, pressTimeoutIds |-> pressTimeoutIds,
   downStates |-> downStates, holdStates |-> holdStates,
   pressStates |-> pressStates, idleTimeoutId |-> idleTimeoutId,
   image |-> image, backgroundImage |-> backgroundImage,
   listeners |-> listeners, gq |-> gq, running |-> running, tasks |-> tasks,
   inflight |-> inflight, log |-> log,
   frame |-> frame, backgroundFrame |-> backgroundFrame,
   loaded |-> loaded, frames |-> frames, animate |-> animate,
   nextFrameTimeoutId |-> nextFrameTimeoutId, currentFrame |-> currentFrame,
   currentLoop |-> currentLoop, loadListeners |-> loadListeners,
   imageDestroyed |-> imageDestroyed, advances |-> advances,
   thrown |-> FALSE, ret |-> <<>>, notes |-> <<>>, pushed |-> <<>>,
   started |-> <<>>, failed |-> <<>>, errors |-> <<>>, activity |-> {}, idle |-> {}]

Commit(s) ==
  /\ focusedPage' = s.focusedPage
  /\ defaultPage' = s.defaultPage
  /\ brightness' = s.brightness
  /\ nodeBrightness' = s.nodeBrightness
  /\ keys' = s.keys
  /\ destroyed' = s.destroyed
  /\ sdHoldTimeoutIds' = s.sdHoldTimeoutIds
  /\ downPages' = s.downPages
  /\ downKeys' = s.downKeys
  /\ sdHoldIndexes' = s.sdHoldIndexes
  /\ pageHoldTimeoutIds' = s.pageHoldTimeoutIds
  /\ downIndexes' = s.downIndexes
  /\ pageHoldIndexes' = s.pageHoldIndexes
  /\ keyHoldTimeoutIds' = s.keyHoldTimeoutIds
  /\ pressTimeoutIds' = s.pressTimeoutIds
  /\ downStates' = s.downStates
  /\ holdStates' = s.holdStates
  /\ pressStates' = s.pressStates
  /\ idleTimeoutId' = s.idleTimeoutId
  /\ image' = s.image
  /\ backgroundImage' = s.backgroundImage
  /\ listeners' = s.listeners
  /\ gq' = s.gq
  /\ running' = s.running
  /\ tasks' = s.tasks
  /\ inflight' = s.inflight
  /\ log' = s.log
  /\ frame' = s.frame
  /\ backgroundFrame' = s.backgroundFrame
  /\ loaded' = s.loaded
  /\ frames' = s.frames
  /\ animate' = s.animate
  /\ nextFrameTimeoutId' = s.nextFrameTimeoutId
  /\ currentFrame' = s.currentFrame
  /\ currentLoop' = s.currentLoop
  /\ loadListeners' = s.loadListeners
  /\ imageDestroyed' = s.imageDestroyed
  /\ advances' = s.advances
  /\ lastJobs' = [pushed |-> s.pushed, started |-> s.started,
                  failed |-> s.failed, errors |-> s.errors,
                  activity |-> s.activity, idle |-> s.idle]
  /\ UNCHANGED cfgVars

\* An exception leaves the call where it is thrown
Throw(s) == [s EXCEPT !.thrown = TRUE]

\* An attach or detach notification e(index, p, k) is emitted on entity t
Notify(s, t, e, i, p, k) ==
  [s EXCEPT !.notes = Append(@, [t |-> t, e |-> e, i |-> i, p |-> p, k |-> k])]

NoJobs == [pushed |-> <<>>, started |-> <<>>, failed |-> <<>>, errors |-> <<>>,
           activity |-> {}, idle |-> {}]

NoCall == [op |-> "none", p |-> Undefined, i |-> <<>>, k |-> Undefined,
           img |-> Undefined, thrown |-> FALSE, ret |-> <<>>,
           notes |-> <<>>, pushed |-> <<>>]

\* An observer of entity t receives event e(index, p, k); src is the scope
\* whose handler emitted it.
Observe(s, i, t, e, p, k, src) ==
  [s EXCEPT !.log[i] = Append(@, [t |-> t, e |-> e, p |-> p, k |-> k, src |-> src])]

----------------------------------------------------------------------------
(* The graphics queue, queue({ autostart: true, concurrency: 1 }), and the  *)
(* jobs of Key.draw and Page.draw.  push() starts the job at once when the  *)
(* queue has capacity, and the job runs up to its first awaited composition;*)
(* a job's promise settles, and the next job starts, after the code that    *)
(* is running has returned.                                                 *)

\* concurrency: 1
QueueConcurrency == 1

\* The images created with a scaled variant (scaleFrames other than 1)
ScaledImages == {"imgA"}

\* Key.getFrame / Key.getBackgroundFrame / Page.getBackgroundFrame: the frame
\* of the image if it has one, kept in _frame / _backgroundFrame, else the
\* frame kept there before
KeyGetFrame(s, k) ==
  IF s.image[k] # Undefined /\ s.image[k] \in s.loaded
  THEN [s EXCEPT !.frame[k] = s.image[k]] ELSE s
GetBackgroundFrame(s, e) ==
  IF s.backgroundImage[e] # Undefined /\ s.backgroundImage[e] \in s.loaded
  THEN [s EXCEPT !.backgroundFrame[e] = s.backgroundImage[e]] ELSE s
KeyFrameOf(s, k) == IF s.image[k] = Undefined THEN Undefined ELSE s.frame[k]
BackgroundFrameOf(s, e) ==
  IF s.backgroundImage[e] = Undefined THEN Undefined ELSE s.backgroundFrame[e]

\* Key.getFrame as its caller sees it: <<im>> for a frame of Image im and
\* <<>> for null, an exception of Image.getFrame leaving the call
KeyGetFrameCall(s, k) ==
  IF s.destroyed[k] THEN Throw(s)
  ELSE IF s.image[k] = Undefined THEN s
  ELSE IF s.imageDestroyed[s.image[k]] THEN Throw(s)
  ELSE LET Return(s1) == IF s1.frame[k] = Undefined THEN s1
                         ELSE [s1 EXCEPT !.ret = <<s1.frame[k]>>]
       IN Return(KeyGetFrame(s, k))

\* Key.getBackgroundFrame and Page.getBackgroundFrame as their caller sees them
GetBackgroundFrameCall(s, e) ==
  IF s.destroyed[e] THEN Throw(s)
  ELSE IF s.backgroundImage[e] = Undefined THEN s
  ELSE IF s.imageDestroyed[s.backgroundImage[e]] THEN Throw(s)
  ELSE LET Return(s1) == IF s1.backgroundFrame[e] = Undefined THEN s1
                         ELSE [s1 EXCEPT !.ret = <<s1.backgroundFrame[e]>>]
       IN Return(GetBackgroundFrame(s, e))

\* Variant: a key pressed at one slot counts as pressed at every slot
IsPressed_AnySlot(s, k, i, p) == \E pr \in s.pressStates[k] : pr[2] = p
\* Key.isPressed(index, page) with both arguments given
IsPressed(s, k, i, p) == <<i, p>> \in s.pressStates[k]

\* A buffer (or a clear) handed to STREAMDECK_NODE
Write(op, at, of, via, page, variant) ==
  [op |-> op, at |-> at, of |-> of, via |-> via, page |-> page, variant |-> variant]

\* The body of one index of the Key.draw job up to its first await: the
\* write when nothing is composed, else a composition in progress
RECURSIVE KeyJobIndexes(_, _, _, _)
KeyJobIndexes(s, job, page, is) ==
  IF is = <<>> THEN s
  ELSE
    LET i == Head(is)
        k == job.of
        pageBg == BackgroundFrameOf(s, page)
        keyBg == BackgroundFrameOf(s, k)
        keyFrame == KeyFrameOf(s, k)
        variant == IF IsPressed(s, k, i, page) /\ keyFrame # Undefined
                      /\ keyFrame \in ScaledImages
                   THEN "scaled" ELSE "base"
        composes == IF pageBg = Undefined
                    THEN keyFrame # Undefined /\ keyBg # Undefined
                    ELSE keyFrame # Undefined \/ keyBg # Undefined
        op == IF pageBg = Undefined /\ keyFrame = Undefined /\ keyBg = Undefined
              THEN "clearKey" ELSE "fillKey"
        s1 == IF composes
              THEN [s EXCEPT !.tasks = @ \cup {[n |-> job.n, w |-> Write("fillKey", <<i>>, k, "job", page, variant)]}]
              ELSE [s EXCEPT !.inflight = Append(@, Write(op, <<i>>, k, "job", page, variant))]
    IN KeyJobIndexes(s1, job, page, Tail(is))

\* The job of Key.draw, up to its first await
KeyJob(s, job) ==
  LET k == job.of
      page == s.focusedPage
  IN IF page = Undefined THEN s
     ELSE
       LET mine == SelectSeq(s.keys[page], LAMBDA e : e[2] = k)
           is == [n \in 1 .. Len(mine) |-> mine[n][1]]
       IN IF is = <<>> THEN s
          ELSE KeyJobIndexes(KeyGetFrame(GetBackgroundFrame(GetBackgroundFrame(s, page), k), k),
                             job, page, is)

RECURSIVE KeyFramesData(_, _)
KeyFramesData(s, ks) ==
  IF ks = <<>> THEN s
  ELSE KeyFramesData(KeyGetFrame(GetBackgroundFrame(s, Head(ks)[2]), Head(ks)[2]), Tail(ks))

\* The job of Page.draw, up to its first await
PageJob(s, job) ==
  LET p == job.of
  IN IF s.focusedPage # p THEN s
     ELSE
       LET Fill(s1) ==
             LET pageBg == BackgroundFrameOf(s1, p)
                 some == \E k \in KeysValues(s1.keys[p]) :
                           BackgroundFrameOf(s1, k) # Undefined \/ KeyFrameOf(s1, k) # Undefined
             IN IF some
                THEN [s1 EXCEPT !.tasks = @ \cup {[n |-> job.n, w |-> Write("fillPanel", <<>>, p, "job", p, "base")]}]
                ELSE [s1 EXCEPT !.inflight =
                        Append(@, Write(IF pageBg = Undefined THEN "clearPanel" ELSE "fillPanel",
                                        <<>>, p, "job", p, "base"))]
       IN Fill(KeyFramesData(GetBackgroundFrame(s, p), s.keys[p]))

\* The number of the next job of the busy period of the queue
NextJobNumber(s) ==
  IF s.gq # <<>> THEN s.gq[Len(s.gq)].n + 1
  ELSE IF s.running # <<>> THEN s.running[Len(s.running)].n + 1
  ELSE 1

\* The position in the queue of the job start() takes: jobs.shift()
Shift(q) == 1

\* Variant: a job that waits behind another job of the same key or page
\* is merged into it and never called
RECURSIVE QueueStart_Merges(_)
QueueStart_Merges(s) ==
  IF s.gq = <<>> \/ Len(s.running) >= QueueConcurrency THEN s
  ELSE
    LET job == s.gq[1]
        rest == SelectSeq(Tail(s.gq), LAMBDA j : j.kind # job.kind \/ j.of # job.of)
        s1 == [s EXCEPT !.gq = rest, !.running = Append(@, job),
                        !.started = Append(@, job)]
    IN QueueStart_Merges(IF job.kind = "key" THEN KeyJob(s1, job) ELSE PageJob(s1, job))
\* Queue.start: while there is capacity the next job is taken and called
RECURSIVE QueueStart(_)
QueueStart(s) ==
  IF s.gq = <<>> \/ Len(s.running) >= QueueConcurrency THEN s
  ELSE
    LET at == Shift(s.gq)
        job == s.gq[at]
        rest == [n \in 1 .. (Len(s.gq) - 1) |-> IF n < at THEN s.gq[n] ELSE s.gq[n + 1]]
        s1 == [s EXCEPT !.gq = rest, !.running = Append(@, job),
                        !.started = Append(@, job)]
    IN QueueStart(IF job.kind = "key" THEN KeyJob(s1, job) ELSE PageJob(s1, job))

\* Queue.push with autostart
Push(s, kind, of) ==
  LET job == [kind |-> kind, of |-> of, n |-> NextJobNumber(s),
              pressed |-> IF kind = "key" THEN s.pressStates[of] ELSE {}]
  IN QueueStart([s EXCEPT !.gq = Append(@, job), !.pushed = Append(@, job)])

\* Variant: the compositions of a job are not awaited
JobSettled_NotAwaited(s, job) == TRUE
\* The promise of a job settles when the compositions it awaits
\* (await Promise.all(...), await sharp(...)) have handed over their buffers
JobSettled(s, job) == \A t \in s.tasks : t.n # job.n

\* After the running code has returned: the settled jobs leave the queue
\* and the next ones start, until a job awaits a composition
RECURSIVE Settle(_)
Settle(s) ==
  IF \E n \in 1 .. Len(s.running) : JobSettled(s, s.running[n])
  THEN Settle(QueueStart([s EXCEPT !.running = SelectSeq(@, LAMBDA j : ~JobSettled(s, j))]))
  ELSE s

----------------------------------------------------------------------------
(* Key *)

\* Key.draw: one job bound to the key is pushed on the graphics queue
KeyDraw(s, k) ==
  IF s.destroyed[k] THEN s ELSE Push(s, "key", k)

\* this.on('detach', ...)
KeyOnDetach(s, k, i, p) ==
  IF s.destroyed[k] THEN s
  ELSE [s EXCEPT !.keyHoldTimeoutIds[k] = MapDelete(@, <<i, p>>),
                 !.pressTimeoutIds[k] = MapDelete(@, <<i, p>>),
                 !.downStates[k] = @ \ {<<i, p>>},
                 !.holdStates[k] = @ \ {<<i, p>>},
                 !.pressStates[k] = @ \ {<<i, p>>}]

\* this.on('down', ...)
KeyOnDown(s, k, i, p) ==
  IF s.destroyed[k] THEN s
  ELSE
    LET hold == IF Positive(HOLD_TIME[k])
                THEN MapSet(s.keyHoldTimeoutIds[k], <<i, p>>, HOLD_TIME[k][1])
                ELSE MapDelete(s.keyHoldTimeoutIds[k], <<i, p>>)
        press == IF PRESS_TIME[k] > 0
                 THEN MapSet(s.pressTimeoutIds[k], <<i, p>>, PRESS_TIME[k])
                 ELSE MapDelete(s.pressTimeoutIds[k], <<i, p>>)
    IN KeyDraw([s EXCEPT !.keyHoldTimeoutIds[k] = hold,
                         !.pressTimeoutIds[k] = press,
                         !.downStates[k] = @ \cup {<<i, p>>},
                         !.holdStates[k] = @ \ {<<i, p>>},
                         !.pressStates[k] = @ \cup {<<i, p>>}], k)

\* this.on('hold', ...)
KeyOnHold(s, k, i, p) ==
  IF s.destroyed[k] THEN s
  ELSE IF IsNumber(HOLD_TIME[k]) THEN s
  ELSE [s EXCEPT !.holdStates[k] = @ \cup {<<i, p>>}]

\* Variant: the press timer of the pair is left pending
KeyOnUp_KeepsPressTimer(s, k, i, p) ==
  IF s.destroyed[k] THEN s
  ELSE
    LET held == <<i, p>> \in s.holdStates[k]
        pressed == <<i, p>> \in s.pressStates[k]
        s1 == [s EXCEPT !.keyHoldTimeoutIds[k] = MapDelete(@, <<i, p>>),
                        !.downStates[k] = @ \ {<<i, p>>},
                        !.holdStates[k] = @ \ {<<i, p>>},
                        !.pressStates[k] = @ \ {<<i, p>>}]
        s2 == IF IsNumber(HOLD_TIME[k])
              THEN Observe(s1, i, k, IF held THEN "held" ELSE "click", p, k, "key")
              ELSE s1
    IN IF pressed THEN KeyDraw(s2, k) ELSE s2
\* Variant: click / held are emitted only for a positive HOLD_TIME
KeyOnUp_PositiveOnly(s, k, i, p) ==
  IF s.destroyed[k] THEN s
  ELSE
    LET held == <<i, p>> \in s.holdStates[k]
        pressed == <<i, p>> \in s.pressStates[k]
        s1 == [s EXCEPT !.keyHoldTimeoutIds[k] = MapDelete(@, <<i, p>>),
                        !.pressTimeoutIds[k] = MapDelete(@, <<i, p>>),
                        !.downStates[k] = @ \ {<<i, p>>},
                        !.holdStates[k] = @ \ {<<i, p>>},
                        !.pressStates[k] = @ \ {<<i, p>>}]
        s2 == IF Positive(HOLD_TIME[k])
              THEN Observe(s1, i, k, IF held THEN "held" ELSE "click", p, k, "key")
              ELSE s1
    IN IF pressed THEN KeyDraw(s2, k) ELSE s2
\* this.on('up', ...): click / held are emitted on the key by its own handler
\* while the observers of up have not run yet
KeyOnUp(s, k, i, p) ==
  IF s.destroyed[k] THEN s
  ELSE
    LET held == <<i, p>> \in s.holdStates[k]
        pressed == <<i, p>> \in s.pressStates[k]
        s1 == [s EXCEPT !.keyHoldTimeoutIds[k] = MapDelete(@, <<i, p>>),
                        !.pressTimeoutIds[k] = MapDelete(@, <<i, p>>),
                        !.downStates[k] = @ \ {<<i, p>>},
                        !.holdStates[k] = @ \ {<<i, p>>},
                        !.pressStates[k] = @ \ {<<i, p>>}]
        s2 == IF IsNumber(HOLD_TIME[k])
              THEN Observe(s1, i, k, IF held THEN "held" ELSE "click", p, k, "key")
              ELSE s1
    IN IF pressed THEN KeyDraw(s2, k) ELSE s2

\* An activity notification reaches entity e
Active(s, e) == [s EXCEPT !.activity = @ \cup {e}]

\* Variant: the idle timer is armed whatever is down
KeyOnActivity_IgnoresDown(s, k) ==
  IF s.destroyed[k] \/ IDLE_TIME[k] <= 0 THEN Active(s, k)
  ELSE [Active(s, k) EXCEPT !.idleTimeoutId[k] = <<IDLE_TIME[k]>>]
\* this.on('activity', ...)
KeyOnActivity(s, k) ==
  LET Handle(s1) ==
        IF s1.destroyed[k] THEN s1
        ELSE IF IDLE_TIME[k] <= 0 \/ s1.downStates[k] # {}
             THEN [s1 EXCEPT !.idleTimeoutId[k] = <<>>]
             ELSE [s1 EXCEPT !.idleTimeoutId[k] = <<IDLE_TIME[k]>>]
  IN Handle(Active(s, k))

\* key.emit(e, index, page, key): the handler of the constructor runs first,
\* then the observers
KeyEmit(s, k, e, i, p, src) ==
  LET Observers(s1) == IF e \in {"attach", "detach"}
                       THEN Notify(s1, k, e, i, p, k)
                       ELSE Observe(s1, i, k, e, p, k, src)
  IN Observers(CASE e = "down" -> KeyOnDown(s, k, i, p)
                 [] e = "hold" -> KeyOnHold(s, k, i, p)
                 [] e = "up" -> KeyOnUp(s, k, i, p)
                 [] e = "detach" -> KeyOnDetach(s, k, i, p)
                 [] OTHER -> s)

----------------------------------------------------------------------------
(* Page *)

\* Page.draw: one job bound to the page is pushed on the graphics queue
PageDraw(s, p) ==
  IF s.destroyed[p] THEN s ELSE Push(s, "page", p)

\* this.on('down', ...): the hold timer keeps the key attached at down
PageOnDown(s, p, i) ==
  IF s.destroyed[p] THEN s
  ELSE
    LET key == KeyAt(s, p, i)
        hold == IF Positive(HOLD_TIME[p])
                THEN MapSet(s.pageHoldTimeoutIds[p], i,
                            [rem |-> HOLD_TIME[p][1], key |-> key])
                ELSE MapDelete(s.pageHoldTimeoutIds[p], i)
    IN [s EXCEPT !.pageHoldTimeoutIds[p] = hold,
                 !.downIndexes[p] = @ \cup {i},
                 !.pageHoldIndexes[p] = @ \ {i}]

\* this.on('hold', ...)
PageOnHold(s, p, i) ==
  IF s.destroyed[p] THEN s
  ELSE IF IsNumber(HOLD_TIME[p]) THEN s
  ELSE [s EXCEPT !.pageHoldIndexes[p] = @ \cup {i}]

\* The key a page's up handler hands click / held to: this._keys.get(index)
PageUpKey(s, p, i) == KeyAt(s, p, i)

\* this.on('up', ...): click / held go to the page and to the key found by
\* PageUpKey while the observers of the page's up have not run yet
PageOnUp(s, p, i) ==
  IF s.destroyed[p] THEN s
  ELSE
    LET key == PageUpKey(s, p, i)
        held == i \in s.pageHoldIndexes[p]
        e == IF held THEN "held" ELSE "click"
        s1 == [s EXCEPT !.pageHoldTimeoutIds[p] = MapDelete(@, i),
                        !.downIndexes[p] = @ \ {i},
                        !.pageHoldIndexes[p] = @ \ {i}]
        s2 == Observe(s1, i, p, e, p, key, "page")
    IN IF ~IsNumber(HOLD_TIME[p]) THEN s1
       ELSE IF key # Undefined /\ ~IsNumber(HOLD_TIME[key])
            THEN KeyEmit(s2, key, e, i, p, "page")
            ELSE s2

\* this.on('activity', ...)
PageOnActivity(s, p) ==
  LET Handle(s1) ==
        IF s1.destroyed[p] THEN s1
        ELSE IF IDLE_TIME[p] <= 0 \/ s1.downIndexes[p] # {}
             THEN [s1 EXCEPT !.idleTimeoutId[p] = <<>>]
             ELSE [s1 EXCEPT !.idleTimeoutId[p] = <<IDLE_TIME[p]>>]
  IN Handle(Active(s, p))

\* page.emit(e, index, page, key)
PageEmit(s, p, e, i, k, src) ==
  LET s1 == CASE e = "down" -> PageOnDown(s, p, i)
              [] e = "hold" -> PageOnHold(s, p, i)
              [] e = "up" -> PageOnUp(s, p, i)
              [] OTHER -> s
  IN Observe(s1, i, p, e, p, k, src)

\* page?.emit(...) and key?.emit(...)
PageEmitOpt(s, p, e, i, k, src) ==
  IF p = Undefined THEN s ELSE PageEmit(s, p, e, i, k, src)
KeyEmitOpt(s, k, e, i, p, src) ==
  IF k = Undefined THEN s ELSE KeyEmit(s, k, e, i, p, src)

----------------------------------------------------------------------------
(* StreamDeck *)

\* this.on('activity', ...)
SdOnActivity(s) ==
  LET Handle(s1) ==
        IF s1.destroyed[SD] THEN s1
        ELSE IF IDLE_TIME[SD] <= 0 \/ DOMAIN s1.downKeys # {}
             THEN [s1 EXCEPT !.idleTimeoutId[SD] = <<>>]
             ELSE [s1 EXCEPT !.idleTimeoutId[SD] = <<IDLE_TIME[SD]>>]
  IN Handle(Active(s, SD))

\* this.emit('activity', ...); page?.emit('activity', ...); key?.emit('activity', ...)
EmitActivity(s, p, k) ==
  LET s1 == SdOnActivity(s)
      s2 == IF p = Undefined THEN s1 ELSE PageOnActivity(s1, p)
  IN IF k = Undefined THEN s2 ELSE KeyOnActivity(s2, k)

\* STREAMDECK_NODE.on('down', ...)
SdOnDown(s, i) ==
  IF s.destroyed[SD] THEN s
  ELSE
    LET page == s.focusedPage
        key == IF page = Undefined THEN Undefined ELSE KeyAt(s, page, i)
        s1 == [s EXCEPT !.sdHoldTimeoutIds = MapDelete(@, i),
                        !.downPages = MapSet(@, i, page),
                        !.downKeys = MapSet(@, i, key),
                        !.sdHoldIndexes = @ \ {i}]
        s2 == PageEmitOpt(s1, page, "down", i, key, SD)
        s3 == KeyEmitOpt(s2, key, "down", i, page, SD)
        SetHoldTimer(s4) ==
          IF Positive(HOLD_TIME[SD])
          THEN [s4 EXCEPT !.sdHoldTimeoutIds =
                  MapSet(@, i, [rem |-> HOLD_TIME[SD][1], page |-> page, key |-> key])]
          ELSE s4
    IN EmitActivity(SetHoldTimer(s3), page, key)

\* Variant: the device's hold reaches the page and the key whatever their
\* own HOLD_TIME
SdHoldCallback_Unconditional(s, i) ==
  LET page == s.sdHoldTimeoutIds[i].page
      key == s.sdHoldTimeoutIds[i].key
      s1 == [s EXCEPT !.sdHoldTimeoutIds = MapDelete(@, i),
                      !.sdHoldIndexes = @ \cup {i}]
      s2 == PageEmitOpt(s1, page, "hold", i, key, SD)
  IN KeyEmitOpt(s2, key, "hold", i, page, SD)
\* The callback of the hold timer of STREAMDECK_NODE.on('down', ...)
SdHoldCallback(s, i) ==
  LET page == s.sdHoldTimeoutIds[i].page
      key == s.sdHoldTimeoutIds[i].key
      s1 == [s EXCEPT !.sdHoldTimeoutIds = MapDelete(@, i),
                      !.sdHoldIndexes = @ \cup {i}]
      HoldKey(s2) == IF key # Undefined /\ ~IsNumber(HOLD_TIME[key])
                     THEN KeyEmit(s2, key, "hold", i, page, SD)
                     ELSE s2
  IN IF page # Undefined /\ ~IsNumber(HOLD_TIME[page])
     THEN HoldKey(PageEmit(s1, page, "hold", i, key, SD))
     ELSE s1

\* STREAMDECK_NODE.on('up', ...)
SdOnUp(s, i) ==
  IF s.destroyed[SD] THEN s
  ELSE
    LET page == MapGet(s.downPages, i)
        key == MapGet(s.downKeys, i)
        held == i \in s.sdHoldIndexes
        e == IF held THEN "held" ELSE "click"
        s1 == [s EXCEPT !.sdHoldTimeoutIds = MapDelete(@, i),
                        !.downPages = MapDelete(@, i),
                        !.downKeys = MapDelete(@, i),
                        !.sdHoldIndexes = @ \ {i}]
        s2 == PageEmitOpt(s1, page, "up", i, key, SD)
        s3 == KeyEmitOpt(s2, key, "up", i, page, SD)
        ClickOrHeldKey(s5) == IF key # Undefined /\ ~IsNumber(HOLD_TIME[key])
                              THEN KeyEmit(s5, key, e, i, page, SD)
                              ELSE s5
        ClickOrHeld(s4) == IF page # Undefined /\ ~IsNumber(HOLD_TIME[page])
                           THEN ClickOrHeldKey(PageEmit(s4, page, e, i, key, SD))
                           ELSE s4
    IN EmitActivity(ClickOrHeld(s3), page, key)

\* Variant: a key HOLD_TIME of 0 is taken for an undefined one (!key.HOLD_TIME)
PageHoldCallback_ZeroInherits(s, p, i) ==
  LET key == s.pageHoldTimeoutIds[p][i].key
      s1 == [s EXCEPT !.pageHoldTimeoutIds[p] = MapDelete(@, i),
                      !.pageHoldIndexes[p] = @ \cup {i}]
      HoldKey(s2) == IF key # Undefined /\ ~Positive(HOLD_TIME[key])
                     THEN KeyEmit(s2, key, "hold", i, p, "page")
                     ELSE s2
  IN HoldKey(PageEmit(s1, p, "hold", i, key, "page"))
\* The callback of the hold timer of Page's this.on('down', ...)
PageHoldCallback(s, p, i) ==
  LET key == s.pageHoldTimeoutIds[p][i].key
      s1 == [s EXCEPT !.pageHoldTimeoutIds[p] = MapDelete(@, i),
                      !.pageHoldIndexes[p] = @ \cup {i}]
      HoldKey(s2) == IF key # Undefined /\ ~IsNumber(HOLD_TIME[key])
                     THEN KeyEmit(s2, key, "hold", i, p, "page")
                     ELSE s2
  IN HoldKey(PageEmit(s1, p, "hold", i, key, "page"))

\* Variant: the callback emits hold and does not add the pair to _holdStates
KeyHoldCallback_NoHoldState(s, k, i, p) ==
  KeyEmit([s EXCEPT !.keyHoldTimeoutIds[k] = MapDelete(@, <<i, p>>)], k, "hold", i, p, "key")
\* The callback of the hold timer of Key's this.on('down', ...)
KeyHoldCallback(s, k, i, p) ==
  LET s1 == [s EXCEPT !.keyHoldTimeoutIds[k] = MapDelete(@, <<i, p>>),
                      !.holdStates[k] = @ \cup {<<i, p>>}]
  IN KeyEmit(s1, k, "hold", i, p, "key")

\* Variant: the press timer clears the pressed state and draws nothing
KeyPressCallback_NoDraw(s, k, i, p) ==
  [s EXCEPT !.pressTimeoutIds[k] = MapDelete(@, <<i, p>>),
            !.pressStates[k] = @ \ {<<i, p>>}]
\* The callback of the press timer of Key's this.on('down', ...)
KeyPressCallback(s, k, i, p) ==
  KeyDraw([s EXCEPT !.pressTimeoutIds[k] = MapDelete(@, <<i, p>>),
                    !.pressStates[k] = @ \ {<<i, p>>}], k)

----------------------------------------------------------------------------
(* The public API *)

\* clearStreamDeckNodePanel: a clearPanel write issued outside the graphics queue
ClearStreamDeckNodePanel(s) ==
  [s EXCEPT !.inflight = Append(@, [op |-> "clearPanel", at |-> <<>>,
                                    of |-> SD, via |-> "direct"])]

\* Math.round(b * 100) of a brightness b given in thousandths: the
\* nearest integer to b / 10, a half rounded up
RoundPercent(b) == (b + 5) \div 10

\* Math.max(0, Math.min(n, 100))
ClampPercent(n) ==
  LET least == IF n < 100 THEN n ELSE 100
  IN IF least > 0 THEN least ELSE 0

\* setStreamDeckNodeBrightness(_this, brightness): brightness ?? _this._brightness
SetStreamDeckNodeBrightness(s, b) ==
  [s EXCEPT !.nodeBrightness =
              ClampPercent(RoundPercent(IF b = <<>> THEN s.brightness[SD][1] ELSE b[1]))]

\* checkValid(brightness, {type: 'number', min: 0, max: 1})
ValidBrightness(b) == b # <<>> /\ b[1] >= 0 /\ b[1] <= 1000

\* StreamDeck.setBrightness that sends whatever page has focus: the
\* variant without the return for a focused page with a brightness
SdSetBrightness_AlwaysSends(s, b) ==
  IF s.destroyed[SD] THEN Throw(s)
  ELSE IF ~ValidBrightness(b) THEN Throw(s)
  ELSE SetStreamDeckNodeBrightness([s EXCEPT !.brightness[SD] = b], <<>>)

\* StreamDeck.setBrightness
SdSetBrightness(s, b) ==
  IF s.destroyed[SD] THEN Throw(s)
  ELSE IF ~ValidBrightness(b) THEN Throw(s)
  ELSE
    LET s1 == [s EXCEPT !.brightness[SD] = b]
    IN IF s1.focusedPage # Undefined /\ s1.brightness[s1.focusedPage] # <<>> THEN s1
       ELSE SetStreamDeckNodeBrightness(s1, <<>>)

\* Page.setBrightness, the brightness optional
PageSetBrightness(s, p, b) ==
  IF s.destroyed[p] THEN Throw(s)
  ELSE IF b # <<>> /\ ~ValidBrightness(b) THEN Throw(s)
  ELSE
    LET s1 == [s EXCEPT !.brightness[p] = b]
    IN IF s1.focusedPage # p THEN s1 ELSE SetStreamDeckNodeBrightness(s1, b)

RECURSIVE ActivityOnKeys(_, _)
ActivityOnKeys(s, ks) ==
  IF ks = {} THEN s
  ELSE LET k == CHOOSE x \in ks : TRUE
       IN ActivityOnKeys(KeyOnActivity(s, k), ks \ {k})

\* StreamDeck.setFocusedPage(page = this._defaultPage)
SetFocusedPageOp(s, arg) ==
  LET page == IF arg = Undefined THEN s.defaultPage ELSE arg
  IN IF s.destroyed[SD] THEN Throw(s)
     ELSE IF s.focusedPage = page THEN s
     ELSE IF page # Undefined /\ s.destroyed[page] THEN Throw(s)
     ELSE
       LET s1 == [s EXCEPT !.focusedPage = page]
       IN IF page = Undefined
          THEN SetStreamDeckNodeBrightness(ClearStreamDeckNodePanel(s1), <<>>)
          ELSE ActivityOnKeys(
                 PageOnActivity(
                   SdOnActivity(
                     SetStreamDeckNodeBrightness(PageDraw(s1, page), s1.brightness[page])),
                   page),
                 KeysValues(s1.keys[page]))

\* StreamDeck.setDefaultPage(page)
SetDefaultPageOp(s, page) ==
  IF s.destroyed[SD] THEN Throw(s)
  ELSE IF s.defaultPage = page THEN s
  ELSE IF page # Undefined /\ s.destroyed[page] THEN Throw(s)
  ELSE LET s1 == [s EXCEPT !.defaultPage = page]
       IN IF s1.focusedPage = Undefined THEN SetFocusedPageOp(s1, page) ELSE s1

\* index = column - 1 + (row - 1) * this.PANEL_COLUMN_COUNT
RowColumnIndex(row, column) == column - 1 + (row - 1) * PANEL_COLUMN_COUNT

\* Page.detachKey looking at the index alone: the variant that removes
\* whatever key is attached at the index it is given
DetachPos_AnyKey(ks, idx, k) ==
  LET match == {n \in 1 .. Len(ks) : idx = <<>> \/ ks[n][1] = idx[1]}
  IN IF match = {} THEN 0
     ELSE CHOOSE n \in match : \A m \in match : n <= m

\* The position in Page._keys of the entry detachKey removes, 0 if none:
\* the first entry, in insertion order, with that index and that key
DetachPos(ks, idx, k) ==
  LET match == {n \in 1 .. Len(ks) : /\ (idx = <<>> \/ ks[n][1] = idx[1])
                                     /\ (k = Undefined \/ ks[n][2] = k)}
  IN IF match = {} THEN 0
     ELSE CHOOSE n \in match : \A m \in match : n <= m

\* The entity detachKey emits the key's detach notification on:
\* key.emit('detach', ...), key being the argument of the call
DetachEmitsOn(k, attachedKey) == k

\* Page.detachKey(index, key), detachKey(row, column, key), detachKey(key):
\* idx is <<>> when no slot is given, k is Undefined when no key is given
PageDetachKey(s, p, idx, k) ==
  IF s.destroyed[p] THEN Throw(s)
  ELSE IF k = Undefined /\ idx = <<>> THEN Throw(s)
  ELSE
    LET n == DetachPos(s.keys[p], idx, k)
    IN IF n = 0 THEN PageDraw(s, p)
       ELSE
         LET attachedIndex == s.keys[p][n][1]
             attachedKey == s.keys[p][n][2]
             target == DetachEmitsOn(k, attachedKey)
             s1 == [s EXCEPT !.keys[p] = KeysDelete(@, attachedIndex)]
             s2 == Notify(s1, SD, "detach", attachedIndex, p, attachedKey)
             s3 == Notify(s2, p, "detach", attachedIndex, p, attachedKey)
         IN IF target = Undefined THEN Throw(s3)
            ELSE PageDraw(KeyEmit(s3, target, "detach", attachedIndex, p, "page"), p)

\* Variant: the last free key slot
FirstFreeSlot_Last(ks) ==
  LET free == {i \in Indexes : ~KeysHas(ks, i)}
  IN IF free = {} THEN <<>>
     ELSE <<CHOOSE i \in free : \A j \in free : i >= j>>
\* The first free key slot of attachKey(key), <<>> if there is none
FirstFreeSlot(ks) ==
  LET free == {i \in Indexes : ~KeysHas(ks, i)}
  IN IF free = {} THEN <<>>
     ELSE <<CHOOSE i \in free : \A j \in free : i <= j>>

\* Page.attachKey(index, key), attachKey(row, column, key), attachKey(key)
PageAttachKey(s, p, idx, k) ==
  IF s.destroyed[p] THEN Throw(s)
  ELSE
    LET slot == IF idx = <<>> THEN FirstFreeSlot(s.keys[p]) ELSE idx
    IN IF slot = <<>> THEN Throw(s)
       ELSE IF s.destroyed[k] THEN Throw(s)
       ELSE
         LET index == slot[1]
             Attach(s1) ==
               LET s2 == [s1 EXCEPT !.keys[p] = KeysSet(@, index, k)]
                   s3 == Notify(s2, SD, "attach", index, p, k)
                   s4 == Notify(s3, p, "attach", index, p, k)
                   s5 == KeyEmit(s4, k, "attach", index, p, "page")
               IN IF s1.thrown THEN s1 ELSE KeyDraw(s5, k)
         IN Attach(IF KeysHas(s.keys[p], index)
                   THEN PageDetachKey(s, p, <<index>>, Undefined)
                   ELSE s)

----------------------------------------------------------------------------
(* Image: the listeners of 'frameUpdated' and the animation *)

\* The listeners of 'frameUpdated' that are no boundDraw of a key or a
\* page; those of OnceObservers are added with once()
Observers == {"o1", "o2"}
OnceObservers == {"o2"}

\* this.listenerCount('frameUpdated')
ListenerCount(s, im) == Len(s.listeners[im])

\* Variant: the timer is left alone when the last listener goes
ManageNextFrameTimeout_KeepsTimer(s, im) ==
  IF ListenerCount(s, im) = 0 THEN s
  ELSE IF s.animate[im] # <<TRUE>> THEN s
  ELSE IF s.nextFrameTimeoutId[im] = Undefined
       THEN [s EXCEPT !.nextFrameTimeoutId[im] = "pending"]
       ELSE s
\* manageNextFrameTimeout
ManageNextFrameTimeout(s, im) ==
  IF ListenerCount(s, im) = 0
  THEN [s EXCEPT !.nextFrameTimeoutId[im] = Undefined]
  ELSE IF s.animate[im] # <<TRUE>> THEN s
  ELSE IF s.nextFrameTimeoutId[im] = Undefined
       THEN [s EXCEPT !.nextFrameTimeoutId[im] = "pending"]
       ELSE s

\* Variant: the listeners of every observer are taken away
ImageOff_EveryObserver(s, im, e) ==
  ManageNextFrameTimeout([s EXCEPT !.listeners[im] = <<>>], im)
\* image.off('frameUpdated', fn) / removeListener: every such listener of e
\* is taken away
ImageOff(s, im, e) ==
  ManageNextFrameTimeout([s EXCEPT !.listeners[im] = SelectSeq(@, LAMBDA x : x # e)], im)

\* image.on('frameUpdated', fn) / once / addListener: one listener is added
ImageOn(s, im, e) ==
  IF s.imageDestroyed[im] THEN Throw(s)
  ELSE ManageNextFrameTimeout([s EXCEPT !.listeners[im] = Append(@, e)], im)

\* image.removeAllListeners('frameUpdated')
ImageRemoveAllListeners(s, im) ==
  ManageNextFrameTimeout([s EXCEPT !.listeners[im] = <<>>], im)

\* this.emit('frameUpdated'): the listeners ls, those there when the emit
\* began, run in the order they were added; a listener added with once()
\* is removed, through removeListener, before it runs
RECURSIVE EmitFrameUpdated(_, _, _)
EmitFrameUpdated(s, im, ls) ==
  IF ls = <<>> THEN s
  ELSE EmitFrameUpdated(IF Head(ls) \in Keys THEN KeyDraw(s, Head(ls))
                        ELSE IF Head(ls) \in Pages THEN PageDraw(s, Head(ls))
                        ELSE IF Head(ls) \in OnceObservers THEN ImageOff(s, im, Head(ls))
                        ELSE s,
                        im, Tail(ls))

\* What nextFrame, setCurrentFrame and resetAnimation do once the frame is
\* set: frameUpdated is emitted and, when the Image animates and has
\* listeners, the timer of the next frame is set
FrameChanged(s, im) ==
  LET Rearm(s1) == IF s1.animate[im] # <<TRUE>> THEN s1
                   ELSE IF ListenerCount(s1, im) = 0 THEN s1
                   ELSE [s1 EXCEPT !.nextFrameTimeoutId[im] = "pending"]
  IN Rearm(EmitFrameUpdated(s, im, s.listeners[im]))

\* One more frame change by nextFrame
Advanced(a) == IF a = <<>> THEN a ELSE <<a[1] + 1>>

\* Image.nextFrame
ImageNextFrame(s, im) ==
  IF s.imageDestroyed[im] THEN s
  ELSE IF frameCount[im] <= 1 THEN s
  ELSE
    LET wraps == s.currentFrame[im] + 1 >= frameCount[im]
        nextFrame == IF wraps THEN 0 ELSE s.currentFrame[im] + 1
        nextLoop == IF wraps THEN s.currentLoop[im] + 1 ELSE s.currentLoop[im]
        s1 == [s EXCEPT !.nextFrameTimeoutId[im] = Undefined]
    IN IF wraps /\ loopCount[im] > 0 /\ s.currentLoop[im] >= loopCount[im]
       THEN [s1 EXCEPT !.animate[im] = <<FALSE>>]
       ELSE IF s.frames[im] > nextFrame
       THEN FrameChanged([s1 EXCEPT !.currentFrame[im] = nextFrame,
                                    !.currentLoop[im] = nextLoop,
                                    !.advances[im] = Advanced(@)], im)
       ELSE ManageNextFrameTimeout(
              [s1 EXCEPT !.loadListeners[im] =
                           Append(@, [f |-> nextFrame, l |-> nextLoop])], im)

\* The position of the first loadListener equal to x, 0 if there is none
ListenerPos(ls, x) ==
  IF \E n \in 1 .. Len(ls) : ls[n] = x
  THEN CHOOSE n \in 1 .. Len(ls) : ls[n] = x /\ \A m \in 1 .. (n - 1) : ls[m] # x
  ELSE 0

\* this.emit('frameLoaded', i): each loadListener of ls that waits for a
\* frame up to i takes itself off, sets the frame it captured, emits
\* frameUpdated and sets the timer
RECURSIVE EmitFrameLoaded(_, _, _, _)
EmitFrameLoaded(s, im, i, ls) ==
  IF ls = <<>> THEN s
  ELSE IF i < Head(ls).f THEN EmitFrameLoaded(s, im, i, Tail(ls))
  ELSE
    LET at == ListenerPos(s.loadListeners[im], Head(ls))
        rest == [n \in 1 .. (Len(s.loadListeners[im]) - 1) |->
                   IF n < at THEN s.loadListeners[im][n] ELSE s.loadListeners[im][n + 1]]
        s1 == ManageNextFrameTimeout(
                IF at = 0 THEN s ELSE [s EXCEPT !.loadListeners[im] = rest], im)
        changes == s1.currentFrame[im] # Head(ls).f \/ s1.currentLoop[im] # Head(ls).l
    IN EmitFrameLoaded(FrameChanged([s1 EXCEPT !.currentFrame[im] = Head(ls).f,
                                               !.currentLoop[im] = Head(ls).l,
                                               !.advances[im] =
                                                  IF changes THEN Advanced(@) ELSE @], im),
                       im, i, Tail(ls))

\* Image.startAnimation without the test of frameCount: the variant that
\* animates an Image of one frame
ImageStartAnimation_AnyCount(s, im) ==
  IF s.imageDestroyed[im] THEN Throw(s)
  ELSE IF ListenerCount(s, im) = 0 THEN [s EXCEPT !.animate[im] = <<TRUE>>]
  ELSE IF s.nextFrameTimeoutId[im] = Undefined
       THEN [s EXCEPT !.animate[im] = <<TRUE>>, !.nextFrameTimeoutId[im] = "pending"]
       ELSE [s EXCEPT !.animate[im] = <<TRUE>>]

\* Image.startAnimation
ImageStartAnimation(s, im) ==
  IF s.imageDestroyed[im] THEN Throw(s)
  ELSE IF frameCount[im] <= 1 THEN s
  ELSE IF ListenerCount(s, im) = 0 THEN [s EXCEPT !.animate[im] = <<TRUE>>]
  ELSE IF s.nextFrameTimeoutId[im] = Undefined
       THEN [s EXCEPT !.animate[im] = <<TRUE>>, !.nextFrameTimeoutId[im] = "pending"]
       ELSE [s EXCEPT !.animate[im] = <<TRUE>>]

\* Image.stopAnimation
ImageStopAnimation(s, im) ==
  IF s.imageDestroyed[im] THEN s
  ELSE [s EXCEPT !.nextFrameTimeoutId[im] = Undefined, !.animate[im] = <<FALSE>>]

\* Image.setCurrentFrame without checkValid of the frame: the variant that
\* takes any integer
ImageSetCurrentFrame_AnyFrame(s, im, f) ==
  IF s.imageDestroyed[im] THEN Throw(s)
  ELSE IF frameCount[im] <= 1 THEN Throw(s)
  ELSE FrameChanged([s EXCEPT !.nextFrameTimeoutId[im] = Undefined,
                              !.currentFrame[im] = f,
                              !.advances[im] = <<>>], im)

\* Image.setCurrentFrame(f), f an integer from 0 to frameCount - 1
ImageSetCurrentFrame(s, im, f) ==
  IF s.imageDestroyed[im] THEN Throw(s)
  ELSE IF frameCount[im] <= 1 THEN Throw(s)
  ELSE IF f < 0 \/ f > frameCount[im] - 1 THEN Throw(s)
  ELSE FrameChanged([s EXCEPT !.nextFrameTimeoutId[im] = Undefined,
                              !.currentFrame[im] = f,
                              !.advances[im] = <<>>], im)

\* Image.resetAnimation
ImageResetAnimation(s, im) ==
  IF s.imageDestroyed[im] THEN Throw(s)
  ELSE IF frameCount[im] <= 1 THEN s
  ELSE FrameChanged([s EXCEPT !.nextFrameTimeoutId[im] = Undefined,
                              !.currentFrame[im] = 0,
                              !.currentLoop[im] = 0,
                              !.advances[im] = <<0>>], im)

\* Image.destroy
ImageDestroy(s, im) ==
  IF s.imageDestroyed[im] THEN Throw(s)
  ELSE [ImageRemoveAllListeners(ImageStopAnimation(s, im), im)
          EXCEPT !.imageDestroyed[im] = TRUE]

\* Image.getFrame with nothing to fall back on: the variant that returns
\* null when the current frame is not loaded
ImageGetFrame_CurrentOnly(s, im) ==
  IF s.imageDestroyed[im] THEN Throw(s)
  ELSE IF s.frames[im] > s.currentFrame[im] THEN [s EXCEPT !.ret = <<s.currentFrame[im]>>]
  ELSE s

\* Image.getFrame: _frames holds the frames 0 .. frames - 1, and the call
\* returns <<n>> for frame n and <<>> for null
ImageGetFrame(s, im) ==
  IF s.imageDestroyed[im] THEN Throw(s)
  ELSE IF ~(s.frames[im] > s.currentFrame[im]) /\ s.frames[im] # 0
       THEN [s EXCEPT !.ret = <<s.frames[im] - 1>>]
  ELSE IF s.frames[im] > s.currentFrame[im] THEN [s EXCEPT !.ret = <<s.currentFrame[im]>>]
  ELSE s

\* Variant: the animation starts with the last frame
ImageLoadFrame_StartsWhenLoaded(s, im) ==
  LET i == s.frames[im]
      Start(s2) == IF i = frameCount[im] - 1 /\ frameCount[im] > 1 /\ s2.animate[im] = <<>>
                      /\ ~s2.imageDestroyed[im]
                   THEN ImageStartAnimation(s2, im) ELSE s2
      Current(s1) == Start(IF i = s1.currentFrame[im]
                           THEN EmitFrameUpdated(s1, im, s1.listeners[im]) ELSE s1)
  IN Current(EmitFrameLoaded([s EXCEPT !.frames[im] = i + 1, !.loaded = @ \cup {im}],
                             im, i, s.loadListeners[im]))

\* One turn of the loop of loadImage over the frames: the frame is pushed,
\* frameLoaded is emitted, frameUpdated too when it is the current frame,
\* and the animation starts with frame 0 when nobody has stopped it
ImageLoadFrame(s, im) ==
  LET i == s.frames[im]
      Start(s2) == IF i = 0 /\ frameCount[im] > 1 /\ s2.animate[im] = <<>>
                      /\ ~s2.imageDestroyed[im]
                   THEN ImageStartAnimation(s2, im) ELSE s2
      Current(s1) == Start(IF i = s1.currentFrame[im]
                           THEN EmitFrameUpdated(s1, im, s1.listeners[im]) ELSE s1)
  IN Current(EmitFrameLoaded([s EXCEPT !.frames[im] = i + 1, !.loaded = @ \cup {im}],
                             im, i, s.loadListeners[im]))

----------------------------------------------------------------------------
(* Images on keys and pages *)

\* Key.clearImage
KeyClearImage(s, k) ==
  IF s.destroyed[k] THEN Throw(s)
  ELSE IF s.image[k] = Undefined THEN s
  ELSE
    LET im == s.image[k]
        s1 == IF im # s.backgroundImage[k] THEN ImageOff(s, im, k) ELSE s
    IN KeyDraw([s1 EXCEPT !.image[k] = Undefined, !.frame[k] = Undefined], k)

\* Key.clearBackgroundImage
KeyClearBackgroundImage(s, k) ==
  IF s.destroyed[k] THEN Throw(s)
  ELSE IF s.backgroundImage[k] = Undefined THEN s
  ELSE
    LET im == s.backgroundImage[k]
        s1 == IF im # s.image[k] THEN ImageOff(s, im, k) ELSE s
    IN KeyDraw([s1 EXCEPT !.backgroundImage[k] = Undefined,
                          !.backgroundFrame[k] = Undefined], k)

\* Key.setImage without checkKeyDestroyed: the variant that serves a
\* destroyed key
KeySetImage_Unchecked(s, k, im) ==
  IF im = Undefined THEN KeyClearImage(s, k)
  ELSE
    LET s1 == IF s.backgroundImage[k] = im THEN ImageOff(s, im, k) ELSE s
        s2 == IF s1.image[k] # Undefined THEN ImageOff(s1, s1.image[k], k) ELSE s1
        Draw(s3) == IF s3.thrown THEN s3 ELSE KeyDraw(s3, k)
    IN Draw(ImageOn([s2 EXCEPT !.image[k] = im], im, k))

\* Key.setImage(image)
KeySetImage(s, k, im) ==
  IF s.destroyed[k] THEN Throw(s)
  ELSE IF im = Undefined THEN KeyClearImage(s, k)
  ELSE
    LET s1 == IF s.backgroundImage[k] = im THEN ImageOff(s, im, k) ELSE s
        s2 == IF s1.image[k] # Undefined THEN ImageOff(s1, s1.image[k], k) ELSE s1
        Draw(s3) == IF s3.thrown THEN s3 ELSE KeyDraw(s3, k)
    IN Draw(ImageOn([s2 EXCEPT !.image[k] = im], im, k))

\* Key.setBackgroundImage(image)
KeySetBackgroundImage(s, k, im) ==
  IF s.destroyed[k] THEN Throw(s)
  ELSE IF im = Undefined THEN KeyClearBackgroundImage(s, k)
  ELSE
    LET s1 == IF s.image[k] = im THEN ImageOff(s, im, k) ELSE s
        s2 == IF s1.backgroundImage[k] # Undefined
              THEN ImageOff(s1, s1.backgroundImage[k], k) ELSE s1
        Draw(s3) == IF s3.thrown THEN s3 ELSE KeyDraw(s3, k)
    IN Draw(ImageOn([s2 EXCEPT !.backgroundImage[k] = im], im, k))

\* Page.clearBackgroundImage
PageClearBackgroundImage(s, p) ==
  IF s.destroyed[p] THEN Throw(s)
  ELSE IF s.backgroundImage[p] = Undefined THEN s
  ELSE PageDraw([ImageOff(s, s.backgroundImage[p], p)
                   EXCEPT !.backgroundImage[p] = Undefined,
                          !.backgroundFrame[p] = Undefined], p)

\* Page.setBackgroundImage(image)
PageSetBackgroundImage(s, p, im) ==
  IF s.destroyed[p] THEN Throw(s)
  ELSE IF im = Undefined THEN PageClearBackgroundImage(s, p)
  ELSE
    LET s1 == IF s.backgroundImage[p] # Undefined
              THEN ImageOff(s, s.backgroundImage[p], p) ELSE s
        Draw(s2) == IF s2.thrown THEN s2 ELSE PageDraw(s2, p)
    IN Draw(ImageOn([s1 EXCEPT !.backgroundImage[p] = im], im, p))

\* The pages in the order of StreamDeck._pages
PageOrder == <<"p1", "p2">>

\* detachKey(index, key) for the entries ks of page p, in order; an
\* exception ends the loop
\* Variant: the loop ends after the first entry
DetachEntries_FirstOnly(s, p, ks) ==
  IF ks = <<>> \/ s.thrown THEN s
  ELSE PageDetachKey(s, p, <<Head(ks)[1]>>, Head(ks)[2])
RECURSIVE DetachEntries(_, _, _)
DetachEntries(s, p, ks) ==
  IF ks = <<>> \/ s.thrown THEN s
  ELSE DetachEntries(PageDetachKey(s, p, <<Head(ks)[1]>>, Head(ks)[2]), p, Tail(ks))

\* The loop of Key.destroy over the pages and their entries holding the key
RECURSIVE DetachEverywhere(_, _, _)
DetachEverywhere(s, k, n) ==
  IF n > Len(PageOrder) \/ s.thrown THEN s
  ELSE LET p == PageOrder[n]
           mine == SelectSeq(s.keys[p], LAMBDA e : e[2] = k)
       IN DetachEverywhere(IF s.destroyed[p] THEN s ELSE DetachEntries(s, p, mine),
                           k, n + 1)

\* Key.destroy
KeyDestroy(s, k) ==
  IF s.destroyed[k] THEN Throw(s)
  ELSE
    LET s1 == [s EXCEPT !.pressTimeoutIds[k] = EmptyMap,
                        !.keyHoldTimeoutIds[k] = EmptyMap,
                        !.idleTimeoutId[k] = <<>>,
                        !.downStates[k] = {},
                        !.holdStates[k] = {},
                        !.pressStates[k] = {}]
        Clear(s2) ==
          IF s2.thrown THEN s2
          ELSE [KeyClearBackgroundImage(KeyClearImage(s2, k), k) EXCEPT !.destroyed[k] = TRUE]
    IN Clear(DetachEverywhere(s1, k, 1))

\* Page.destroy
\* Page.blur
PageBlur(s, p) ==
  IF s.destroyed[p] THEN Throw(s)
  ELSE IF s.focusedPage = p THEN SetFocusedPageOp(s, s.defaultPage)
  ELSE s

\* Page.destroy that leaves the default page alone: the variant without
\* STREAMDECK.setDefaultPage()
PageDestroy_KeepsDefault(s, p) ==
  IF s.destroyed[p] THEN Throw(s)
  ELSE
    LET s1 == [s EXCEPT !.pageHoldTimeoutIds[p] = EmptyMap,
                        !.idleTimeoutId[p] = <<>>,
                        !.downIndexes[p] = {},
                        !.pageHoldIndexes[p] = {}]
        Destroyed(s5) == IF s5.thrown THEN s5 ELSE [s5 EXCEPT !.destroyed[p] = TRUE]
        DetachKeys(s4) == Destroyed(DetachEntries(s4, p, s4.keys[p]))
        ClearBackground(s3) ==
          DetachKeys(IF s3.thrown THEN s3 ELSE PageClearBackgroundImage(s3, p))
    IN ClearBackground(IF s1.focusedPage = p THEN SetFocusedPageOp(s1, s1.defaultPage)
                       ELSE s1)

PageDestroy(s, p) ==
  IF s.destroyed[p] THEN Throw(s)
  ELSE
    LET s1 == [s EXCEPT !.pageHoldTimeoutIds[p] = EmptyMap,
                        !.idleTimeoutId[p] = <<>>,
                        !.downIndexes[p] = {},
                        !.pageHoldIndexes[p] = {}]
        Destroyed(s5) == IF s5.thrown THEN s5 ELSE [s5 EXCEPT !.destroyed[p] = TRUE]
        DetachKeys(s4) == Destroyed(DetachEntries(s4, p, s4.keys[p]))
        ClearBackground(s3) ==
          DetachKeys(IF s3.thrown THEN s3 ELSE PageClearBackgroundImage(s3, p))
        Unfocus(s2) ==
          ClearBackground(IF s2.thrown THEN s2
                          ELSE IF s2.focusedPage = p THEN SetFocusedPageOp(s2, s2.defaultPage)
                          ELSE s2)
    IN Unfocus(IF s1.defaultPage = p THEN SetDefaultPageOp(s1, Undefined) ELSE s1)

\* The keys in the order of StreamDeck._keys
KeyOrder == <<"k1", "k2">>

\* The loops of StreamDeck.destroy over its keys and its pages: destroy()
\* of each one that is still in the set, an exception ends the loop
RECURSIVE DestroyEach(_, _)
DestroyEach(s, es) ==
  IF es = <<>> \/ s.thrown THEN s
  ELSE IF s.destroyed[Head(es)] THEN DestroyEach(s, Tail(es))
  ELSE DestroyEach(IF Head(es) \in Keys THEN KeyDestroy(s, Head(es))
                   ELSE PageDestroy(s, Head(es)), Tail(es))

\* StreamDeck.destroy: the timers and the press state go, the keys and the
\* pages are destroyed, and the graphics queue is ended
SdDestroy(s) ==
  IF s.destroyed[SD] THEN Throw(s)
  ELSE
    LET s1 == [s EXCEPT !.sdHoldTimeoutIds = EmptyMap,
                        !.idleTimeoutId[SD] = <<>>,
                        !.downPages = EmptyMap,
                        !.downKeys = EmptyMap,
                        !.sdHoldIndexes = {}]
        End(s2) == IF s2.thrown THEN s2
                   ELSE [s2 EXCEPT !.gq = <<>>, !.running = <<>>, !.destroyed[SD] = TRUE]
    IN End(DestroyEach(DestroyEach(s1, KeyOrder), PageOrder))

----------------------------------------------------------------------------
(* Time *)

\* Ticks an observer can tell apart after a slot went down
MaxElapsed == MaxHoldTime + 1

SdTimerDue == \E i \in DOMAIN sdHoldTimeoutIds : sdHoldTimeoutIds[i].rem = 0
PageTimerDue ==
  \E p \in Pages : \E i \in DOMAIN pageHoldTimeoutIds[p] : pageHoldTimeoutIds[p][i].rem = 0
KeyTimerDue ==
  \E k \in Keys : \/ \E x \in DOMAIN keyHoldTimeoutIds[k] : keyHoldTimeoutIds[k][x] = 0
                  \/ \E x \in DOMAIN pressTimeoutIds[k] : pressTimeoutIds[k][x] = 0
IdleTimerDue == \E e \in Entities : idleTimeoutId[e] = <<0>>
TimerDue == SdTimerDue \/ PageTimerDue \/ KeyTimerDue \/ IdleTimerDue

TimerPending ==
  \/ DOMAIN sdHoldTimeoutIds # {}
  \/ \E p \in Pages : DOMAIN pageHoldTimeoutIds[p] # {}
  \/ \E k \in Keys : DOMAIN keyHoldTimeoutIds[k] # {} \/ DOMAIN pressTimeoutIds[k] # {}
  \/ \E e \in Entities : idleTimeoutId[e] # <<>>

\* The pressed pair of slot i still holds the key it held when it went down
StillAttached(s, i) ==
  /\ downPages[i] # Undefined
  /\ downKeys[i] # Undefined
  /\ KeyAt(s, downPages[i], i) = downKeys[i]
  /\ ~s.destroyed[downKeys[i]]
  /\ ~s.destroyed[downPages[i]]

\* What every step that is no press or release does to the bookkeeping
Bookkeeping(s) ==
  /\ intact' = [i \in Indexes |->
                  IF i \in DOMAIN downPages THEN intact[i] /\ StillAttached(s, i)
                  ELSE intact[i]]
  /\ UNCHANGED elapsed

\* A handler or callback that is no call of the public API has run
Ran(s0) ==
  LET Returned(s) == Commit(s) /\ Bookkeeping(s) /\ lastCall' = NoCall
  IN Returned(Settle(s0))

\* A call of the public API has returned or thrown
Called(op, p, i, k, img, s0) ==
  LET Returned(s) ==
        /\ Commit(s)
        /\ Bookkeeping(s)
        /\ lastCall' = [op |-> op, p |-> p, i |-> i, k |-> k, img |-> img,
                        thrown |-> s.thrown, ret |-> s.ret, notes |-> s.notes,
                        pushed |-> s.pushed]
  IN Returned(Settle(s0))

\* One tick passes: no timer is due, every pending timer comes one tick closer
Tick ==
  /\ ~TimerDue
  /\ TimerPending \/ \E i \in DOMAIN downPages : elapsed[i] < MaxElapsed
  /\ sdHoldTimeoutIds' = [i \in DOMAIN sdHoldTimeoutIds |->
                            [sdHoldTimeoutIds[i] EXCEPT !.rem = @ - 1]]
  /\ pageHoldTimeoutIds' = [p \in Pages |-> [i \in DOMAIN pageHoldTimeoutIds[p] |->
                              [pageHoldTimeoutIds[p][i] EXCEPT !.rem = @ - 1]]]
  /\ keyHoldTimeoutIds' = [k \in Keys |-> [x \in DOMAIN keyHoldTimeoutIds[k] |->
                              keyHoldTimeoutIds[k][x] - 1]]
  /\ pressTimeoutIds' = [k \in Keys |-> [x \in DOMAIN pressTimeoutIds[k] |->
                              pressTimeoutIds[k][x] - 1]]
  /\ idleTimeoutId' = [e \in Entities |->
                         IF idleTimeoutId[e] = <<>> THEN <<>> ELSE <<idleTimeoutId[e][1] - 1>>]
  /\ elapsed' = [i \in Indexes |->
                   IF i \in DOMAIN downPages /\ elapsed[i] < MaxElapsed
                   THEN elapsed[i] + 1 ELSE elapsed[i]]
  /\ lastCall' = NoCall
  /\ lastJobs' = NoJobs
  /\ UNCHANGED <<cfgVars, focusedPage, defaultPage, brightness, nodeBrightness,
                 keys, destroyed, downPages,
                 downKeys, sdHoldIndexes, downIndexes, pageHoldIndexes,
                 downStates, holdStates, pressStates, image, backgroundImage,
                 listeners, gq, running, tasks, inflight, log, intact, loaded,
                 frame, backgroundFrame, imageVars>>

----------------------------------------------------------------------------
(* The transport reports a slot going down or up *)

Down(i) ==
  /\ ~TimerDue
  /\ i \notin DOMAIN downPages
  /\ LET s0 == [State EXCEPT !.log = [j \in Indexes |->
                                        IF j \in DOMAIN downPages THEN log[j] ELSE <<>>]]
         Returned(s) ==
           /\ Commit(s)
           /\ intact' = [j \in Indexes |->
                           IF j = i THEN MapGet(s.downKeys, i) # Undefined
                           ELSE j \in DOMAIN downPages /\ intact[j] /\ StillAttached(s, j)]
           /\ elapsed' = [j \in Indexes |-> IF j \in DOMAIN downPages THEN elapsed[j] ELSE 0]
           /\ lastCall' = NoCall
     IN Returned(Settle(SdOnDown(s0, i)))

Up(i) ==
  /\ ~TimerDue
  /\ i \in DOMAIN downPages
  /\ LET s == Settle(SdOnUp(State, i))
     IN /\ Commit(s)
        /\ lastCall' = NoCall
        /\ UNCHANGED <<intact, elapsed>>

----------------------------------------------------------------------------
(* Timers *)

SdHoldTimeout(i) ==
  /\ i \in DOMAIN sdHoldTimeoutIds
  /\ sdHoldTimeoutIds[i].rem = 0
  /\ Ran(SdHoldCallback(State, i))

PageHoldTimeout(p, i) ==
  /\ i \in DOMAIN pageHoldTimeoutIds[p]
  /\ pageHoldTimeoutIds[p][i].rem = 0
  /\ Ran(PageHoldCallback(State, p, i))

KeyHoldTimeout(k, i, p) ==
  /\ <<i, p>> \in DOMAIN keyHoldTimeoutIds[k]
  /\ keyHoldTimeoutIds[k][<<i, p>>] = 0
  /\ Ran(KeyHoldCallback(State, k, i, p))

KeyPressTimeout(k, i, p) ==
  /\ <<i, p>> \in DOMAIN pressTimeoutIds[k]
  /\ pressTimeoutIds[k][<<i, p>>] = 0
  /\ Ran(KeyPressCallback(State, k, i, p))

\* The callback of the idle timer of this.on('activity', ...):
\* this._idleTimeoutId = undefined; this.emit('idle')
IdleTimeout(e) ==
  /\ idleTimeoutId[e] = <<0>>
  /\ Ran([State EXCEPT !.idleTimeoutId[e] = <<>>, !.idle = @ \cup {e}])

----------------------------------------------------------------------------
(* The transport and sharp complete what they were handed *)

\* Variant: the rejection is swallowed
EmitCaughtAsyncError_Swallows(s, e) == s
\* emitCaughtAsyncError(_this, ...) catches: _this.emit('error', err)
EmitCaughtAsyncError(s, e) == [s EXCEPT !.errors = Append(@, e)]

\* The compositions of the job of t that are still in progress when
\* Promise.all has rejected: they go on, awaited by nobody
Orphaned(ts, t) == {IF x.n = t.n THEN [x EXCEPT !.n = 0] ELSE x : x \in ts \ {t}}

\* A composition fails: the async function of its job throws and
\* emitCaughtAsyncError reports it on the key or page of the job, unless
\* the job has thrown before
ComposeFail(t) ==
  /\ t \in tasks
  /\ Ran(IF t.n = 0 THEN [State EXCEPT !.tasks = @ \ {t}]
         ELSE EmitCaughtAsyncError([State EXCEPT !.tasks = Orphaned(@, t),
                                                 !.failed = Append(@, t.w.of)], t.w.of))

\* The oldest write of STREAMDECK_NODE fails: emitCaughtAsyncError reports
\* it on the entity that issued it
WriteFail ==
  /\ inflight # <<>>
  /\ Ran(EmitCaughtAsyncError([State EXCEPT !.inflight = Tail(@),
                                            !.failed = Append(@, Head(inflight).of)],
                              Head(inflight).of))

\* A composition ends: its buffer is handed to STREAMDECK_NODE
ComposeDone(t) ==
  /\ t \in tasks
  /\ Ran([State EXCEPT !.tasks = @ \ {t}, !.inflight = Append(@, t.w)])

\* The oldest write of STREAMDECK_NODE completes
WriteDone ==
  /\ inflight # <<>>
  /\ Ran([State EXCEPT !.inflight = Tail(@)])

----------------------------------------------------------------------------
(* Calls of the public API *)

SetFocusedPage(arg) ==
  /\ ~TimerDue
  /\ Called("setFocusedPage", arg, <<>>, Undefined, Undefined, SetFocusedPageOp(State, arg))

SetDefaultPage(arg) ==
  /\ ~TimerDue
  /\ Called("setDefaultPage", arg, <<>>, Undefined, Undefined, SetDefaultPageOp(State, arg))

\* attachKey(index, key) and attachKey(key)
AttachKey(p, idx, k) ==
  /\ ~TimerDue
  /\ Called("attachKey", p, idx, k, Undefined, PageAttachKey(State, p, idx, k))

\* attachKey(row, column, key)
AttachKeyAt(p, row, column, k) ==
  /\ ~TimerDue
  /\ Called("attachKeyAt", p, <<row, column>>, k, Undefined,
            PageAttachKey(State, p, <<RowColumnIndex(row, column)>>, k))

\* detachKey(index), detachKey(index, key) and detachKey(key)
DetachKey(p, idx, k) ==
  /\ ~TimerDue
  /\ Called("detachKey", p, idx, k, Undefined, PageDetachKey(State, p, idx, k))

\* detachKey(row, column) and detachKey(row, column, key)
DetachKeyAt(p, row, column, k) ==
  /\ ~TimerDue
  /\ Called("detachKeyAt", p, <<row, column>>, k, Undefined,
            PageDetachKey(State, p, <<RowColumnIndex(row, column)>>, k))

DestroyKey(k) ==
  /\ ~TimerDue
  /\ Called("destroyKey", Undefined, <<>>, k, Undefined, KeyDestroy(State, k))

DestroyPage(p) ==
  /\ ~TimerDue
  /\ Called("destroyPage", p, <<>>, Undefined, Undefined, PageDestroy(State, p))

\* streamDeck.setBrightness(b), page.setBrightness(b)
SetBrightness(e, b) ==
  /\ ~TimerDue
  /\ Called("setBrightness", e, b, Undefined, Undefined,
            IF e = SD THEN SdSetBrightness(State, b) ELSE PageSetBrightness(State, e, b))

\* streamDeck.destroy()
DestroySd ==
  /\ ~TimerDue
  /\ Called("destroySd", Undefined, <<>>, Undefined, Undefined, SdDestroy(State))

\* key.draw(), page.draw()
Draw(e) ==
  /\ ~TimerDue
  /\ Called("draw", Undefined, <<>>, e, Undefined,
            IF e \in Keys THEN KeyDraw(State, e) ELSE PageDraw(State, e))

Blur(p) ==
  /\ ~TimerDue
  /\ Called("blur", p, <<>>, Undefined, Undefined, PageBlur(State, p))

SetImage(k, im) ==
  /\ ~TimerDue
  /\ Called("setImage", Undefined, <<>>, k, im, KeySetImage(State, k, im))

SetBackgroundImage(e, im) ==
  /\ ~TimerDue
  /\ Called("setBackgroundImage", Undefined, <<>>, e, im,
            IF e \in Keys THEN KeySetBackgroundImage(State, e, im)
            ELSE PageSetBackgroundImage(State, e, im))

\* key.getFrame()
GetKeyFrame(k) ==
  Called("getKeyFrame", Undefined, <<>>, k, Undefined, KeyGetFrameCall(State, k))

\* key.getBackgroundFrame(), page.getBackgroundFrame()
GetBackgroundFrameOf(e) ==
  Called("getBackgroundFrame", Undefined, <<>>, e, Undefined,
         GetBackgroundFrameCall(State, e))

\* The current frame of a loaded Image changes
FrameUpdated(im) ==
  /\ ~TimerDue
  /\ im \in loaded
  /\ Called("frameUpdated", Undefined, <<>>, Undefined, im,
            EmitFrameUpdated(State, im, listeners[im]))

----------------------------------------------------------------------------
(* Calls of the public API of an Image, its load and its timer *)

\* image.on('frameUpdated', fn), image.once(...), image.addListener(...)
On(im, o) ==
  Called("on", Undefined, <<>>, o, im, ImageOn(State, im, o))

\* image.off('frameUpdated', fn), image.removeListener(...)
Off(im, o) ==
  Called("off", Undefined, <<>>, o, im, ImageOff(State, im, o))

\* image.removeAllListeners('frameUpdated')
RemoveAllListeners(im) ==
  Called("removeAllListeners", Undefined, <<>>, Undefined, im,
         ImageRemoveAllListeners(State, im))

StartAnimation(im) ==
  Called("startAnimation", Undefined, <<>>, Undefined, im, ImageStartAnimation(State, im))

StopAnimation(im) ==
  Called("stopAnimation", Undefined, <<>>, Undefined, im, ImageStopAnimation(State, im))

NextFrame(im) ==
  Called("nextFrame", Undefined, <<>>, Undefined, im, ImageNextFrame(State, im))

SetCurrentFrame(im, f) ==
  Called("setCurrentFrame", Undefined, <<f>>, Undefined, im,
         ImageSetCurrentFrame(State, im, f))

ResetAnimation(im) ==
  Called("resetAnimation", Undefined, <<>>, Undefined, im, ImageResetAnimation(State, im))

DestroyImage(im) ==
  Called("destroyImage", Undefined, <<>>, Undefined, im, ImageDestroy(State, im))

GetFrame(im) ==
  Called("getFrame", Undefined, <<>>, Undefined, im, ImageGetFrame(State, im))

\* loadImage has composited the sources of the Image and reads the frame
\* count and the loop count from the metadata, before any frame is loaded
SharpLoaded(im, pages, loop) ==
  /\ frames[im] = 0
  /\ frameCount[im] = 1
  /\ loopCount[im] = 0
  /\ frameCount' = [frameCount EXCEPT ![im] = pages]
  /\ loopCount' = [loopCount EXCEPT ![im] = loop]
  /\ lastCall' = NoCall
  /\ lastJobs' = NoJobs
  /\ UNCHANGED <<HOLD_TIME, PRESS_TIME, IDLE_TIME, imageVars, focusedPage, defaultPage,
                 brightness, nodeBrightness, keys, destroyed, sdHoldTimeoutIds, downPages, downKeys, sdHoldIndexes,
                 pageHoldTimeoutIds, downIndexes, pageHoldIndexes, keyHoldTimeoutIds,
                 pressTimeoutIds, downStates, holdStates, pressStates, idleTimeoutId,
                 image, backgroundImage, listeners, gq, running, tasks, inflight, log,
                 elapsed, intact, loaded, frame, backgroundFrame>>

\* loadImage has the next frame of the Image ready
LoadFrame(im) ==
  /\ frames[im] < frameCount[im]
  /\ Ran(ImageLoadFrame(State, im))

\* The timer of the next frame fires: () => this.nextFrame()
NextFrameTimeout(im) ==
  /\ nextFrameTimeoutId[im] = "pending"
  /\ Ran(ImageNextFrame([State EXCEPT !.nextFrameTimeoutId[im] = "fired"], im))

----------------------------------------------------------------------------
(* Initial states: the device, two pages and two keys have been created *)

\* Nothing is pressed, drawn or pending
Idle ==
  /\ defaultPage = Undefined
  /\ brightness = [e \in {SD} \cup Pages |-> IF e = SD THEN <<1000>> ELSE <<>>]
  /\ nodeBrightness = 100
  /\ destroyed = [e \in Entities |-> FALSE]
  /\ sdHoldTimeoutIds = EmptyMap
  /\ downPages = EmptyMap
  /\ downKeys = EmptyMap
  /\ sdHoldIndexes = {}
  /\ pageHoldTimeoutIds = [p \in Pages |-> EmptyMap]
  /\ downIndexes = [p \in Pages |-> {}]
  /\ pageHoldIndexes = [p \in Pages |-> {}]
  /\ keyHoldTimeoutIds = [k \in Keys |-> EmptyMap]
  /\ pressTimeoutIds = [k \in Keys |-> EmptyMap]
  /\ downStates = [k \in Keys |-> {}]
  /\ holdStates = [k \in Keys |-> {}]
  /\ pressStates = [k \in Keys |-> {}]
  /\ idleTimeoutId = [e \in Entities |-> <<>>]
  /\ gq = <<>>
  /\ running = <<>>
  /\ tasks = {}
  /\ inflight = <<>>
  /\ log = [i \in Indexes |-> <<>>]
  /\ elapsed = [i \in Indexes |-> 0]
  /\ intact = [i \in Indexes |-> FALSE]
  /\ nextFrameTimeoutId = [im \in Images |-> Undefined]
  /\ currentFrame = [im \in Images |-> 0]
  /\ currentLoop = [im \in Images |-> 0]
  /\ loadListeners = [im \in Images |-> <<>>]
  /\ imageDestroyed = [im \in Images |-> FALSE]
  /\ advances = [im \in Images |-> <<0>>]
  /\ lastJobs = NoJobs
  /\ calls = 0
  /\ lastCall = NoCall

\* No key and no page has an image
NoImages ==
  /\ image = [k \in Keys |-> Undefined]
  /\ backgroundImage = [e \in Keys \cup Pages |-> Undefined]
  /\ listeners = [im \in Images |-> <<>>]
  /\ frame = [k \in Keys |-> Undefined]
  /\ backgroundFrame = [e \in Keys \cup Pages |-> Undefined]

Quiet == Idle /\ NoImages

\* No Image has read its metadata yet: one frame and no loop count are
\* what an Image is constructed with
Unloaded ==
  /\ loaded = {}
  /\ frames = [im \in Images |-> 0]
  /\ frameCount = [im \in Images |-> 1]
  /\ loopCount = [im \in Images |-> 0]
  /\ animate = [im \in Images |-> <<>>]

\* Nothing is attached or focused
Fresh ==
  /\ Quiet
  /\ Unloaded
  /\ focusedPage = Undefined
  /\ keys = [p \in Pages |-> <<>>]

\* The hold durations an entity is created with: undefined, 0 (disabled),
\* or a number of ticks
HoldTimes == {<<>>, <<0>>, <<MaxHoldTime>>}

\* options.holdTime of the device, of page p1 and of key k1; p2 and k2
\* inherit, and so do p1 and k1 where holding is disabled on the device
HoldOptions ==
  /\ HOLD_TIME \in [Entities -> HoldTimes]
  /\ IsNumber(HOLD_TIME[SD])
  /\ HOLD_TIME[SD] = <<0>> => HOLD_TIME["p1"] = <<>> /\ HOLD_TIME["k1"] = <<>>
  /\ HOLD_TIME["p2"] = <<>>
  /\ HOLD_TIME["k2"] = <<>>

\* The defaults of the device with its hold time in ticks
DefaultOptions ==
  /\ HOLD_TIME = [e \in Entities |-> IF e = SD THEN <<MaxHoldTime>> ELSE <<>>]
  /\ PRESS_TIME = [k \in Keys |-> 0]
  /\ IDLE_TIME = [e \in Entities |-> 0]

Init == Fresh /\ DefaultOptions

OptIndexes == {<<>>} \cup {<<i>> : i \in Indexes}
Rows == 1 .. PANEL_ROW_COUNT
Columns == 1 .. PANEL_COLUMN_COUNT

\* The calls that take a slot by its index or take no slot
Wiring ==
  \/ \E p \in Pages \cup {Undefined} : SetFocusedPage(p)
  \/ \E p \in Pages, idx \in OptIndexes, k \in Keys : AttachKey(p, idx, k)
  \/ \E p \in Pages, idx \in OptIndexes, k \in Keys \cup {Undefined} : DetachKey(p, idx, k)
  \/ \E k \in Keys : DestroyKey(k)
  \/ \E p \in Pages : DestroyPage(p)

\* The calls that take a slot by its row and column
WiringAt ==
  \/ \E p \in Pages, r \in Rows, c \in Columns, k \in Keys : AttachKeyAt(p, r, c, k)
  \/ \E p \in Pages, r \in Rows, c \in Columns, k \in Keys \cup {Undefined} :
       DetachKeyAt(p, r, c, k)

\* Attachments: any calls of the API on a device nobody presses, the
\* transport completing each write before the next call
Next ==
  \/ inflight = <<>> /\ (Wiring \/ WiringAt) /\ UNCHANGED calls
  \/ WriteDone /\ UNCHANGED calls

Spec == Init /\ [][Next]_vars

\* Presses: the device wired by the options of createPage and createKey,
\* k1 on both slots of p1 and on slot 0 of p2, k2 on slot 1 of p2, p1
\* focused; any presses and releases, and at most MaxCalls calls of the API
\* that move the focus, rewire a slot of p1 or destroy a page or a key
MaxCalls == 1

Rewiring ==
  \/ \E p \in Pages \cup {Undefined} : SetFocusedPage(p)
  \/ \E i \in Indexes, k \in Keys : AttachKey("p1", <<i>>, k)
  \/ \E i \in Indexes, k \in Keys \cup {Undefined} : DetachKey("p1", <<i>>, k)
  \/ \E k \in Keys : DestroyKey(k)
  \/ \E p \in Pages : DestroyPage(p)

Wired ==
  /\ Quiet
  /\ Unloaded
  /\ focusedPage = "p1"
  /\ keys = [p \in Pages |-> IF p = "p1" THEN << <<0, "k1">>, <<1, "k1">> >>
                                ELSE << <<0, "k1">>, <<1, "k2">> >>]

InitPress ==
  /\ Wired
  /\ HoldOptions
  /\ PRESS_TIME = [k \in Keys |-> 0]
  /\ IDLE_TIME = [e \in Entities |-> 0]

Press ==
  \/ \E i \in Indexes : Down(i)
  \/ \E i \in Indexes : Up(i)
  \/ Tick
  \/ \E i \in Indexes : SdHoldTimeout(i)
  \/ \E p \in Pages, i \in Indexes : PageHoldTimeout(p, i)
  \/ \E k \in Keys, i \in Indexes, p \in Pages : KeyHoldTimeout(k, i, p)

NextPress ==
  \/ inflight = <<>> /\ Press /\ UNCHANGED calls
  \/ inflight = <<>> /\ calls < MaxCalls /\ Rewiring /\ calls' = calls + 1
  \/ WriteDone /\ UNCHANGED calls

SpecPress == InitPress /\ [][NextPress]_vars

\* Press times: the device of the press scenario where k2 shows the
\* pressed variant for MaxPressTime ticks, and k1 for as long or until
\* the release (pressTime 0)
MaxPressTime == 1

InitPressTime ==
  /\ Wired
  /\ HoldOptions
  /\ PRESS_TIME \in [Keys -> {0, MaxPressTime}]
  /\ PRESS_TIME["k2"] = MaxPressTime
  /\ IDLE_TIME = [e \in Entities |-> 0]

NextPressTime ==
  \/ inflight = <<>> /\ Press /\ UNCHANGED calls
  \/ inflight = <<>> /\ calls < MaxCalls /\ Rewiring /\ calls' = calls + 1
  \/ WriteDone /\ UNCHANGED calls
  \/ inflight = <<>> /\ (\E k \in Keys, i \in Indexes, p \in Pages : KeyPressTimeout(k, i, p))
     /\ UNCHANGED calls

SpecPressTime == InitPressTime /\ [][NextPressTime]_vars

\* Idling: the device of the press scenario where every entity has an idle
\* time of MaxIdleTime ticks
MaxIdleTime == 2

InitIdle ==
  /\ Wired
  /\ HoldOptions
  /\ PRESS_TIME = [k \in Keys |-> 0]
  /\ IDLE_TIME = [e \in Entities |-> MaxIdleTime]

NextIdle ==
  \/ inflight = <<>> /\ Press /\ UNCHANGED calls
  \/ inflight = <<>> /\ calls < MaxCalls /\ Rewiring /\ calls' = calls + 1
  \/ WriteDone /\ UNCHANGED calls
  \/ inflight = <<>> /\ (\E e \in Entities : IdleTimeout(e)) /\ UNCHANGED calls

SpecIdle == InitIdle /\ [][NextIdle]_vars

\* The frames of the Images of the rendering scenario, whose animation has
\* been stopped
StillFrames == 2

\* Rendering: k1 on both slots of the focused page p1, every Image loaded;
\* images are set and cleared on k1 and p1, frames change, the focus
\* moves between p1 and no page, and compositions and writes complete in
\* any order; a call is made when the busy period of the queue has seen
\* at most MaxQueue jobs and fewer than MaxInflight writes are in flight
InitRender ==
  /\ Quiet
  /\ loaded = Images
  /\ frames = [im \in Images |-> StillFrames]
  /\ frameCount = [im \in Images |-> StillFrames]
  /\ loopCount = [im \in Images |-> 0]
  /\ animate = [im \in Images |-> <<FALSE>>]
  /\ focusedPage = "p1"
  /\ keys = [p \in Pages |-> IF p = "p1" THEN << <<0, "k1">>, <<1, "k1">> >> ELSE <<>>]
  /\ DefaultOptions

Rendering ==
  \/ \E im \in KeyImages \cup {Undefined} : SetImage("k1", im)
  \/ \E im \in KeyImages \cup {Undefined} : SetBackgroundImage("k1", im)
  \/ \E im \in PanelImages \cup {Undefined} : SetBackgroundImage("p1", im)
  \/ \E im \in Images : FrameUpdated(im)
  \/ \E p \in {"p1", Undefined} : SetFocusedPage(p)

NextRender ==
  \/ NextJobNumber(State) <= MaxQueue + 1 /\ Len(inflight) < MaxInflight /\ Rendering
     /\ UNCHANGED calls
  \/ (\E t \in tasks : ComposeDone(t)) /\ UNCHANGED calls
  \/ WriteDone /\ UNCHANGED calls

SpecRender == InitRender /\ [][NextRender]_vars

\* Redrawing: k1 shows the Image imgA, which has a scaled variant, over the
\* background imgB, on both slots of the focused page p1 and on slot 1 of
\* p2, so that each of its render jobs awaits a composition; holding is
\* disabled. The slots are pressed and released, a frame changes, the
\* focus moves, slot 0 of p1 is detached and attached, and compositions
\* and writes complete in any order, within the bounds of the rendering
\* scenario.
InitRedraw ==
  /\ Idle
  /\ loaded = Images
  /\ frames = [im \in Images |-> StillFrames]
  /\ frameCount = [im \in Images |-> StillFrames]
  /\ loopCount = [im \in Images |-> 0]
  /\ animate = [im \in Images |-> <<FALSE>>]
  /\ focusedPage = "p1"
  /\ keys = [p \in Pages |-> IF p = "p1" THEN << <<0, "k1">>, <<1, "k1">> >>
                                ELSE << <<1, "k1">> >>]
  /\ image = [k \in Keys |-> IF k = "k1" THEN "imgA" ELSE Undefined]
  /\ backgroundImage = [e \in Keys \cup Pages |-> IF e = "k1" THEN "imgB" ELSE Undefined]
  /\ listeners = [im \in Images |-> IF im \in {"imgA", "imgB"} THEN <<"k1">> ELSE <<>>]
  /\ frame = [k \in Keys |-> IF k = "k1" THEN "imgA" ELSE Undefined]
  /\ backgroundFrame = [e \in Keys \cup Pages |-> IF e = "k1" THEN "imgB" ELSE Undefined]
  /\ HOLD_TIME = [e \in Entities |-> IF e = SD THEN <<0>> ELSE <<>>]
  /\ PRESS_TIME = [k \in Keys |-> 0]
  /\ IDLE_TIME = [e \in Entities |-> 0]

Redrawing ==
  \/ \E i \in Indexes : Down(i)
  \/ \E i \in Indexes : Up(i)
  \/ FrameUpdated("imgA")
  \/ \E p \in Pages : SetFocusedPage(p)
  \/ DetachKey("p1", <<0>>, "k1")
  \/ AttachKey("p1", <<0>>, "k1")

NextRedraw ==
  \/ NextJobNumber(State) <= MaxQueue + 1 /\ Len(inflight) < MaxInflight /\ Redrawing
     /\ UNCHANGED calls
  \/ (\E t \in tasks : ComposeDone(t)) /\ UNCHANGED calls
  \/ WriteDone /\ UNCHANGED calls

SpecRedraw == InitRedraw /\ [][NextRedraw]_vars

\* Failures: the redraw scenario in which compositions and writes may fail
Failing ==
  \/ FrameUpdated("imgA")
  \/ \E p \in Pages : SetFocusedPage(p)

NextFail ==
  \/ NextJobNumber(State) <= MaxQueue + 1 /\ Len(inflight) < MaxInflight /\ Failing
     /\ UNCHANGED calls
  \/ (\E t \in tasks : ComposeDone(t)) /\ UNCHANGED calls
  \/ WriteDone /\ UNCHANGED calls
  \/ (\E t \in tasks : ComposeFail(t)) /\ UNCHANGED calls
  \/ WriteFail /\ UNCHANGED calls

SpecFail == InitRedraw /\ [][NextFail]_vars

\* Animation: the Image imgA has read its metadata, frameCount frames
\* that loop loopCount times (0: for ever), and no frame is loaded yet;
\* its frames load, its timer fires and its API is called in any order.
\* An Image that loops for ever is followed for MaxLoopCount loops, and
\* at most MaxListeners listeners and loadListeners are kept.
MaxFrameCount == 3
MaxLoopCount == 2
MaxListeners == 2
Animated == "imgA"

InitAnim ==
  /\ Quiet
  /\ DefaultOptions
  /\ focusedPage = Undefined
  /\ keys = [p \in Pages |-> <<>>]
  /\ loaded = {}
  /\ frames = [im \in Images |-> 0]
  /\ animate = [im \in Images |-> <<>>]
  /\ frameCount \in [Images -> 1 .. MaxFrameCount]
  /\ loopCount \in [Images -> 0 .. MaxLoopCount]
  /\ \A im \in Images \ {Animated} : frameCount[im] = 1 /\ loopCount[im] = 0

Animating ==
  \/ \E o \in Observers : Len(listeners[Animated]) < MaxListeners /\ On(Animated, o)
  \/ \E o \in Observers : Off(Animated, o)
  \/ RemoveAllListeners(Animated)
  \/ StartAnimation(Animated)
  \/ StopAnimation(Animated)
  \/ Len(loadListeners[Animated]) < MaxListeners /\ NextFrame(Animated)
  \/ \E f \in 0 .. (MaxFrameCount - 1) : SetCurrentFrame(Animated, f)
  \/ ResetAnimation(Animated)
  \/ DestroyImage(Animated)
  \/ LoadFrame(Animated)
  \/ Len(loadListeners[Animated]) < MaxListeners /\ NextFrameTimeout(Animated)

NextAnim == currentLoop[Animated] <= MaxLoopCount /\ Animating /\ UNCHANGED calls

SpecAnim == InitAnim /\ [][NextAnim]_vars

\* Sharing: k1 and k2 on the slots of the focused page p1; the Image
\* Shared, of StillFrames frames that loop for ever, is loaded and its
\* animation has started. The keys take the Image as their image and drop
\* it, the keys are destroyed, the animation timer fires, and
\* compositions and writes complete, within the bounds of the rendering
\* scenario.
Shared == "imgB"

InitShare ==
  /\ Quiet
  /\ DefaultOptions
  /\ focusedPage = "p1"
  /\ keys = [p \in Pages |-> IF p = "p1" THEN << <<0, "k1">>, <<1, "k2">> >> ELSE <<>>]
  /\ loaded = {Shared}
  /\ frames = [im \in Images |-> IF im = Shared THEN StillFrames ELSE 0]
  /\ frameCount = [im \in Images |-> IF im = Shared THEN StillFrames ELSE 1]
  /\ loopCount = [im \in Images |-> 0]
  /\ animate = [im \in Images |-> IF im = Shared THEN <<TRUE>> ELSE <<>>]

Sharing ==
  \/ \E k \in Keys, im \in {Shared, Undefined} : SetImage(k, im)
  \/ \E k \in Keys : DestroyKey(k)
  \/ currentLoop[Shared] < MaxLoopCount /\ NextFrameTimeout(Shared)

NextShare ==
  \/ NextJobNumber(State) <= MaxQueue + 1 /\ Len(inflight) < MaxInflight /\ Sharing
     /\ UNCHANGED calls
  \/ (\E t \in tasks : ComposeDone(t)) /\ UNCHANGED calls
  \/ WriteDone /\ UNCHANGED calls

SpecShare == InitShare /\ [][NextShare]_vars

\* Loading: no Image has read its metadata or loaded a frame. imgA loads
\* as an animation of up to MaxFrameCount frames; while it loads it gets
\* and loses observers, is started, stopped, stepped, reset, destroyed and
\* asked for its frame
Loading ==
  \/ \E n \in 2 .. MaxFrameCount, l \in 0 .. MaxLoopCount : SharpLoaded(Animated, n, l)
  \/ LoadFrame(Animated)
  \/ \E o \in Observers : Len(listeners[Animated]) < MaxListeners /\ On(Animated, o)
  \/ \E o \in Observers : Off(Animated, o)
  \/ StartAnimation(Animated)
  \/ StopAnimation(Animated)
  \/ Len(loadListeners[Animated]) < MaxListeners /\ NextFrame(Animated)
  \/ \E f \in 0 .. (MaxFrameCount - 1) : SetCurrentFrame(Animated, f)
  \/ ResetAnimation(Animated)
  \/ DestroyImage(Animated)
  \/ Len(loadListeners[Animated]) < MaxListeners /\ NextFrameTimeout(Animated)
  \/ GetFrame(Animated)

NextLoad == currentLoop[Animated] <= MaxLoopCount /\ Loading /\ UNCHANGED calls

SpecLoad == Init /\ [][NextLoad]_vars

\* Focus: no page has focus and none is the default page. Pages become
\* the default page, get focus, lose it and are destroyed, with keys
\* attached to them
Focusing ==
  \/ \E p \in Pages \cup {Undefined} : SetDefaultPage(p)
  \/ \E p \in Pages \cup {Undefined} : SetFocusedPage(p)
  \/ \E p \in Pages : Blur(p)
  \/ \E p \in Pages : DestroyPage(p)
  \/ \E p \in Pages, k \in Keys : AttachKey(p, <<>>, k)

NextFocus ==
  \/ inflight = <<>> /\ Focusing /\ UNCHANGED calls
  \/ WriteDone /\ UNCHANGED calls

SpecFocus == Init /\ [][NextFocus]_vars

\* Brightness: the device has its default brightness and no page has one.
\* The brightness of the device and of the pages is set and cleared while
\* pages become the default page, get focus, lose it and are destroyed
Brightnesses == {<<0>>, <<4>>, <<5>>, <<1000>>, <<1001>>}

Brightening ==
  \/ \E b \in Brightnesses \cup {<<>>} : SetBrightness(SD, b)
  \/ \E p \in Pages, b \in Brightnesses \cup {<<>>} : SetBrightness(p, b)
  \/ \E p \in Pages : SetDefaultPage(p)
  \/ \E p \in Pages \cup {Undefined} : SetFocusedPage(p)
  \/ \E p \in Pages : DestroyPage(p)

NextBright ==
  \/ inflight = <<>> /\ Brightening /\ UNCHANGED calls
  \/ WriteDone /\ UNCHANGED calls

SpecBright == Init /\ [][NextBright]_vars

\* Frames: no Image has loaded a frame, k1 and p1 are attached nowhere
\* and not focused. The still images load, are set on k1 and p1 and are
\* destroyed, and k1 and p1 are asked for their frames
Framing ==
  \/ \E im \in Images : LoadFrame(im)
  \/ \E im \in KeyImages : DestroyImage(im)
  \/ \E im \in KeyImages \cup {Undefined} : SetImage("k1", im)
  \/ \E im \in KeyImages \cup {Undefined} : SetBackgroundImage("k1", im)
  \/ \E im \in PanelImages \cup {Undefined} : SetBackgroundImage("p1", im)
  \/ GetKeyFrame("k1")
  \/ \E e \in {"k1", "p1"} : GetBackgroundFrameOf(e)

NextFrames == Framing /\ UNCHANGED calls

SpecFrames == Init /\ [][NextFrames]_vars

\* Destruction: nothing is attached, focused or loaded. k1 is attached to
\* p1 and detached, p1 gets focus, the still Image imgA loads and is set on
\* k1; k1, p1, the Image and the device are destroyed, and every call is
\* made on them before and after, the compositions and the writes
\* completing before the next call
Destroying ==
  \/ AttachKey("p1", <<0>>, "k1")
  \/ DetachKey("p1", <<0>>, "k1")
  \/ \E p \in {"p1", Undefined} : SetFocusedPage(p)
  \/ SetDefaultPage("p1")
  \/ Blur("p1")
  \/ \E e \in {SD, "p1"} : SetBrightness(e, <<5>>)
  \/ \E im \in {"imgA", Undefined} : SetImage("k1", im)
  \/ \E e \in {"k1", "p1"} : GetBackgroundFrameOf(e)
  \/ GetKeyFrame("k1")
  \/ \E e \in {"k1", "p1"} : Draw(e)
  \/ DestroyKey("k1")
  \/ DestroyPage("p1")
  \/ DestroySd
  \/ LoadFrame("imgA")
  \/ Len(listeners["imgA"]) < MaxListeners /\ On("imgA", "o1")
  \/ Off("imgA", "o1")
  \/ RemoveAllListeners("imgA")
  \/ StartAnimation("imgA")
  \/ StopAnimation("imgA")
  \/ NextFrame("imgA")
  \/ SetCurrentFrame("imgA", 0)
  \/ ResetAnimation("imgA")
  \/ GetFrame("imgA")
  \/ DestroyImage("imgA")

NextDestroyed ==
  \/ inflight = <<>> /\ tasks = {} /\ Destroying /\ UNCHANGED calls
  \/ (\E t \in tasks : ComposeDone(t)) /\ UNCHANGED calls
  \/ WriteDone /\ UNCHANGED calls

SpecDestroyed == Init /\ [][NextDestroyed]_vars

\* Scaling: k1 on both slots of the focused page p1, every Image loaded,
\* nothing shown and holding disabled. The slots are pressed and released
\* while k1 gets and loses an Image with a scaled variant (imgA) or
\* without one (imgB) and a background, and p1 a background; compositions
\* and writes complete in any order, within the bounds of the rendering
\* scenario
InitScale ==
  /\ Quiet
  /\ loaded = Images
  /\ frames = [im \in Images |-> StillFrames]
  /\ frameCount = [im \in Images |-> StillFrames]
  /\ loopCount = [im \in Images |-> 0]
  /\ animate = [im \in Images |-> <<FALSE>>]
  /\ focusedPage = "p1"
  /\ keys = [p \in Pages |-> IF p = "p1" THEN << <<0, "k1">>, <<1, "k1">> >> ELSE <<>>]
  /\ HOLD_TIME = [e \in Entities |-> IF e = SD THEN <<0>> ELSE <<>>]
  /\ PRESS_TIME = [k \in Keys |-> 0]
  /\ IDLE_TIME = [e \in Entities |-> 0]

Scaling ==
  \/ \E i \in Indexes : Down(i)
  \/ \E i \in Indexes : Up(i)
  \/ \E im \in KeyImages \cup {Undefined} : SetImage("k1", im)
  \/ \E im \in {"imgB", Undefined} : SetBackgroundImage("k1", im)
  \/ \E im \in PanelImages \cup {Undefined} : SetBackgroundImage("p1", im)

NextScale ==
  \/ NextJobNumber(State) <= MaxQueue + 1 /\ Len(inflight) < MaxInflight /\ Scaling
     /\ UNCHANGED calls
  \/ (\E t \in tasks : ComposeDone(t)) /\ UNCHANGED calls
  \/ WriteDone /\ UNCHANGED calls

SpecScale == InitScale /\ [][NextScale]_vars

\* Waiting: no Image has loaded a frame and k1 is attached nowhere. The
\* Image Animated reads its metadata and its frames load while k1 takes it
\* as its image and drops it, the animation is started, stopped and
\* advanced by calls and by its timer; the Image is followed for
\* MaxLoopCount loops and at most MaxListeners loadListeners are kept
Waiting ==
  \/ \E n \in 2 .. MaxFrameCount, l \in 0 .. MaxLoopCount : SharpLoaded(Animated, n, l)
  \/ LoadFrame(Animated)
  \/ \E im \in {Animated, Undefined} : SetImage("k1", im)
  \/ StartAnimation(Animated)
  \/ StopAnimation(Animated)
  \/ Len(loadListeners[Animated]) < MaxListeners /\ NextFrame(Animated)
  \/ Len(loadListeners[Animated]) < MaxListeners /\ NextFrameTimeout(Animated)

NextWait == currentLoop[Animated] <= MaxLoopCount /\ Waiting /\ UNCHANGED calls

SpecWait == Init /\ [][NextWait]_vars

----------------------------------------------------------------------------
(* What the observers of a press saw *)

\* The notifications e \in es that observers of entity t received for slot i
Seen(i, t, es) == {n \in 1 .. Len(log[i]) : log[i][n].t = t /\ log[i][n].e \in es}

\* Slot i has been pressed on a focused page and released
Released(i) == i \notin DOMAIN downPages /\ log[i] # <<>>

\* The page that had focus and the key it held at slot i when it went down
PressPage(i) == log[i][1].p
PressKey(i) == log[i][1].k

\* The scope whose hold duration a key on page p goes by, and that duration
GoverningScope(k, p) ==
  IF IsNumber(HOLD_TIME[k]) THEN "key"
  ELSE IF IsNumber(HOLD_TIME[p]) THEN "page" ELSE SD
EffectiveHold(k, p) ==
  IF IsNumber(HOLD_TIME[k]) THEN HOLD_TIME[k][1]
  ELSE IF IsNumber(HOLD_TIME[p]) THEN HOLD_TIME[p][1] ELSE HOLD_TIME[SD][1]

\* A completed press of a key that stayed attached at the pair throughout
KeptPress(i) == Released(i) /\ PressKey(i) # Undefined /\ intact[i]

\* C1: for a key attached at a pair whose effective hold duration H is
\* positive, a release before H ticks have passed makes the key emit click
\* and not held, and a release after at least H ticks makes it emit held
\* and not click.
C1_ClickXorHeld ==
  \A i \in Indexes :
    KeptPress(i) /\ EffectiveHold(PressKey(i), PressPage(i)) > 0 =>
      LET k == PressKey(i)
          H == EffectiveHold(k, PressPage(i))
      IN /\ elapsed[i] < H =>
              Seen(i, k, {"click"}) # {} /\ Seen(i, k, {"held"}) = {}
         /\ elapsed[i] >= H =>
              Seen(i, k, {"held"}) # {} /\ Seen(i, k, {"click"}) = {}

C1_Witness ==
  \E i \in Indexes :
    /\ KeptPress(i)
    /\ EffectiveHold(PressKey(i), PressPage(i)) > 0
    /\ elapsed[i] >= EffectiveHold(PressKey(i), PressPage(i))
    /\ Seen(i, PressKey(i), {"held"}) # {}

\* C2: the hold, held and click notifications of a key come from the scope
\* that governs it (its own HOLD_TIME if defined, else that of the page
\* focused at down if defined, else that of the device) and from no other;
\* a key kept on its pair has received hold exactly when the governing
\* duration is positive and has elapsed.
C2_GoverningScope ==
  \A i \in Indexes :
    /\ \A n \in 1 .. Len(log[i]) :
         log[i][n].t \in Keys /\ log[i][n].e \in {"hold", "held", "click"} =>
           log[i][n].src = GoverningScope(log[i][n].t, log[i][n].p)
    /\ \A k \in Keys : Cardinality(Seen(i, k, {"hold"})) <= 1
    /\ log[i] # <<>> /\ PressKey(i) # Undefined /\ intact[i] /\ ~TimerDue =>
         LET H == EffectiveHold(PressKey(i), PressPage(i))
         IN Seen(i, PressKey(i), {"hold"}) # {} <=> (H > 0 /\ elapsed[i] >= H)

C2_Witness ==
  \E i \in Indexes :
    /\ log[i] # <<>> /\ PressKey(i) # Undefined /\ intact[i]
    /\ ~IsNumber(HOLD_TIME[PressKey(i)])
    /\ Positive(HOLD_TIME[PressPage(i)])
    /\ Positive(HOLD_TIME[SD])
    /\ \E n \in Seen(i, PressKey(i), {"hold"}) : log[i][n].src = "page"

\* C3: a page or key whose HOLD_TIME is 0 never receives hold or held, and a
\* hold emitted by a coarser scope reaches a page or key only if its own
\* HOLD_TIME is undefined.
C3_ZeroDisablesHold ==
  \A i \in Indexes : \A n \in 1 .. Len(log[i]) :
    LET x == log[i][n]
        own == IF x.t \in Keys THEN "key" ELSE "page"
    IN /\ HOLD_TIME[x.t] = <<0>> => x.e \notin {"hold", "held"}
       /\ x.e = "hold" /\ x.src # own => ~IsNumber(HOLD_TIME[x.t])

C3_Witness ==
  \E i \in Indexes :
    /\ KeptPress(i)
    /\ HOLD_TIME[PressKey(i)] = <<0>>
    /\ ~IsNumber(HOLD_TIME[PressPage(i)])
    /\ Positive(HOLD_TIME[SD])
    /\ elapsed[i] >= HOLD_TIME[SD][1]
    /\ Seen(i, PressKey(i), {"up"}) # {}
    /\ Seen(i, PressKey(i), {"hold", "held"}) = {}

\* C6: a key's held pairs are among its down pairs.
C6_HeldWithinDown == \A k \in Keys : holdStates[k] \subseteq downStates[k]

\* C7: every up a key received came with exactly one click or held on that
\* key, held if the key received hold during the press and click if not.
C7_UpThenClickOrHeld ==
  \A i \in Indexes : \A k \in Keys :
    Released(i) /\ Seen(i, k, {"up"}) # {} =>
      /\ Cardinality(Seen(i, k, {"click", "held"})) = 1
      /\ Seen(i, k, {"held"}) # {} <=> Seen(i, k, {"hold"}) # {}

----------------------------------------------------------------------------
(* Attachments *)

\* The last call was detachKey(index) on a live page
DetachedByIndex ==
  /\ lastCall.op = "detachKey"
  /\ lastCall.i # <<>>
  /\ lastCall.k = Undefined
  /\ ~destroyed[lastCall.p]

\* The detach notifications of the last call that entity t received
DetachNotes(t) ==
  {n \in 1 .. Len(lastCall.notes) : lastCall.notes[n].t = t /\ lastCall.notes[n].e = "detach"}

\* C8: detachKey(index) without a key returns without an exception, leaves
\* the slot empty, and when a key was attached there detach has been
\* emitted on the device, on the page and on that key.
C8_DetachByIndex ==
  DetachedByIndex =>
    /\ ~lastCall.thrown
    /\ ~KeysHas(keys[lastCall.p], lastCall.i[1])
    /\ \A n \in DetachNotes(SD) :
         /\ DetachNotes(lastCall.p) # {}
         /\ DetachNotes(lastCall.notes[n].k) # {}

\* The slot an attachKey call names, <<>> when it names none
AttachSlot(c) ==
  IF c.op = "attachKeyAt" THEN <<RowColumnIndex(c.i[1], c.i[2])>> ELSE c.i

\* The pairs whose key differs between two values of Page._keys
Rewired(before, after) ==
  {x \in Pairs : KeysGet(before[x[2]], x[1]) # KeysGet(after[x[2]], x[1])}

\* C9: a page holds at most one entry per index, an attachKey call changes
\* the key of no pair but the one it attaches at, and nothing keeps a key
\* from being attached at several indexes and pages.
C9_OneKeyPerPair ==
  /\ [](\A p \in Pages : \A n, m \in 1 .. Len(keys[p]) :
          keys[p][n][1] = keys[p][m][1] => n = m)
  /\ [][lastCall'.op \in {"attachKey", "attachKeyAt"} =>
          /\ Cardinality(Rewired(keys, keys')) <= 1
          /\ \A x \in Rewired(keys, keys') :
               /\ x[2] = lastCall'.p
               /\ AttachSlot(lastCall') # <<>> => x[1] = AttachSlot(lastCall')[1]]_vars

C9_Witness ==
  /\ lastCall.op = "attachKey"
  /\ ~lastCall.thrown
  /\ \E k \in Keys :
       /\ \A i \in Indexes : KeysGet(keys["p1"], i) = k
       /\ \E i \in Indexes : KeysGet(keys["p2"], i) = k

----------------------------------------------------------------------------
(* Rendering *)

C5_OneWriteInFlight ==
  /\ Len(inflight) <= 1
  /\ \A n \in 1 .. Len(inflight) : inflight[n].via = "job"

\* The keys and pages that show Image im
Shows(e, im) ==
  \/ e \in Keys /\ image[e] = im
  \/ backgroundImage[e] = im

\* C10: when the frame of an Image changes, a render job is enqueued for
\* every key that has it as image or background image and for every page
\* that has it as background image.
C10_FrameChangeRedraws ==
  lastCall.op = "frameUpdated" =>
    \A e \in Keys \cup Pages :
      Shows(e, lastCall.img) /\ ~destroyed[e] =>
        \E n \in 1 .. Len(lastCall.pushed) : lastCall.pushed[n].of = e

----------------------------------------------------------------------------
(* The animation of an Image *)

\* C11: an Image of more than one frame that loops loopCount = N > 0 times
\* and has advanced from frame 0 of loop 0 by nextFrame alone has made at
\* most N * frameCount frame changes: the animation has halted by then
C11_HaltsAfterLoopCount ==
  \A im \in Images :
    frameCount[im] > 1 /\ loopCount[im] > 0 /\ advances[im] # <<>>
      => advances[im][1] <= loopCount[im] * frameCount[im]

----------------------------------------------------------------------------
(* The render jobs *)

\* The compositions job j began when it was called
TasksOf(j, ts) == {t \in ts : t.n = j.n}

\* C13: the jobs a step starts are the oldest of those that waited and
\* those the step pushed, in order and none left out or merged; and a job
\* that waited composes for the page that has focus when it starts, for
\* the slots of that page that hold its key then, and in the scaled
\* variant exactly for the slots that are pressed then
C13_JobsReadLiveState ==
  [][/\ gq \o lastJobs'.pushed = lastJobs'.started \o gq'
     /\ \A n \in 1 .. Len(gq) :
          LET j == gq[n]
          IN n <= Len(lastJobs'.started) /\ j.kind = "key" =>
               \A t \in TasksOf(j, tasks') :
                 /\ focusedPage' # Undefined
                 /\ t.w.page = focusedPage'
                 /\ KeysGet(keys'[focusedPage'], t.w.at[1]) = j.of
                 /\ t.w.variant = "scaled"
                      <=> /\ <<t.w.at[1], focusedPage'>> \in pressStates'[j.of]
                          /\ frame'[j.of] \in ScaledImages]_vars

\* A job of k1 pushed while slot 0 of p1 was pressed has started after the
\* release and composes the base variant for that slot
C13_Witness ==
  \E n \in 1 .. Len(lastJobs.started) :
    LET j == lastJobs.started[n]
    IN /\ j.kind = "key"
       /\ <<0, "p1">> \in j.pressed
       /\ <<0, "p1">> \notin pressStates[j.of]
       /\ frame[j.of] \in ScaledImages
       /\ \E t \in TasksOf(j, tasks) : t.w.at = <<0>> /\ t.w.variant = "base"

\* C14: each composition that makes its job throw and each write that
\* fails is reported by one error on the key or page (or device) it
\* belongs to; the queue goes on: the jobs are still started oldest
\* first, none left out, every job that stays in the queue awaits a
\* composition, and a job waits only while another one is running
C14_ErrorsReportedQueueGoesOn ==
  /\ [][/\ lastJobs'.errors = lastJobs'.failed
        /\ gq \o lastJobs'.pushed = lastJobs'.started \o gq']_vars
  /\ [](/\ \A n \in 1 .. Len(running) : TasksOf(running[n], tasks) # {}
        /\ gq # <<>> => running # <<>>)

\* A composition of the running job has failed while a job waited: the
\* error is reported on its key and the waiting job has started
C14_Witness ==
  /\ lastJobs.failed = <<"k1">>
  /\ lastJobs.errors = <<"k1">>
  /\ lastJobs.started # <<>>
  /\ lastJobs.pushed = <<>>

\* The slots that are down on page p and on key k: the ones that went
\* down while p had the focus, and of these the ones where k was attached
\* and has been since
DownOnPage(p) == {i \in DOMAIN downPages : downPages[i] = p}
DownOnKey(k) == {i \in DOMAIN downPages : downKeys[i] = k /\ intact[i]}

\* The scope e has a slot down
HasDown(e) ==
  CASE e = SD -> DOMAIN downPages # {}
    [] e \in Pages -> DownOnPage(e) # {} \/ downIndexes[e] # {}
    [] e \in Keys -> DownOnKey(e) # {} \/ downStates[e] # {}

\* C15: on the device, on every page and on every key no idle timer is
\* pending while a slot of it is down, and no step emits idle on an
\* entity that has a slot down
C15_NoIdleWhileDown ==
  /\ [](\A e \in Entities : HasDown(e) => idleTimeoutId[e] = <<>>)
  /\ [][\A e \in lastJobs'.idle : ~HasDown(e)]_vars

\* Activity has reached the device, p1 and k1 while slot 0 of k1 on p1 is
\* down: none of the three has an idle timer pending, whereas p2, which
\* has no slot down, has one
C15_Witness ==
  /\ 0 \in DOMAIN downPages
  /\ downKeys[0] = "k1"
  /\ lastJobs.activity = {SD, "p1", "k1"}
  /\ \A e \in {SD, "p1", "k1"} : idleTimeoutId[e] = <<>>
  /\ idleTimeoutId["p2"] # <<>>

\* The events a step delivers for slot i on pages and keys: what it adds
\* to the log of the slot
Delivered(before, after, wasDown, isDown) ==
  LET from == IF wasDown \/ ~isDown THEN Len(before) ELSE 0
  IN {after[n] : n \in (from + 1) .. Len(after)}

\* C16: a step that delivers down, up or hold to a page or a key, that
\* takes a slot of the device down or up or holds it, or that gives a
\* page the focus, emits activity on each of these entities, and the idle
\* timer of an entity that activity reaches is then either not pending or
\* has its whole time to run
C16_ActivityOnEveryEvent ==
  [][/\ \A i \in Indexes :
          \A ev \in Delivered(log[i], log'[i], i \in DOMAIN downPages, i \in DOMAIN downPages') :
            ev.e \in {"down", "up", "hold"} => ev.t \in lastJobs'.activity
     /\ DOMAIN downPages' # DOMAIN downPages \/ ~(sdHoldIndexes' \subseteq sdHoldIndexes)
          => SD \in lastJobs'.activity
     /\ focusedPage' # focusedPage /\ focusedPage' # Undefined
          => {SD, focusedPage'} \cup KeysValues(keys'[focusedPage']) \subseteq lastJobs'.activity
     /\ \A e \in lastJobs'.activity : idleTimeoutId'[e] \in {<<>>, <<IDLE_TIME[e]>>}]_vars

\* Key k keeps nothing for its pair of slot i and page p: the pair is in
\* none of its down, hold and press states and has no pending hold or
\* press timer
Purged(k, i, p) ==
  /\ <<i, p>> \notin downStates[k] \cup holdStates[k] \cup pressStates[k]
  /\ <<i, p>> \notin DOMAIN keyHoldTimeoutIds[k] \cup DOMAIN pressTimeoutIds[k]

\* C17: a step after which a key is no longer attached to a slot of a
\* page, or in which the key or the page is destroyed, leaves the key no
\* down, hold or press state and no pending hold or press timer for the
\* pair, and delivers no up, held or click for the pair to the key
C17_DetachPurges ==
  [][\A k \in Keys, p \in Pages, i \in Indexes :
       /\ KeysGet(keys[p], i) = k
       /\ KeysGet(keys'[p], i) # k \/ destroyed'[k] # destroyed[k] \/ destroyed'[p] # destroyed[p]
       => /\ Purged(k, i, p)'
          /\ \A ev \in Delivered(log[i], log'[i], i \in DOMAIN downPages, i \in DOMAIN downPages') :
               ~(ev.t = k /\ ev.p = p /\ ev.e \in {"up", "held", "click"})]_vars

\* The pending timer with rem ticks left and a duration of time ticks of
\* key k for the pair pr was armed when the slot of the pair last went down
\* on the key
OfThisPress(k, pr, rem, time) ==
  /\ pr[1] \in DOMAIN downPages
  /\ downPages[pr[1]] = pr[2]
  /\ downKeys[pr[1]] = k
  /\ rem + elapsed[pr[1]] = time

\* C18: a step that delivers up for a pair to a key leaves the key no
\* down, hold or press state and no pending hold or press timer for the
\* pair; and every pending hold or press timer of a key was armed by the
\* latest down of its pair, whose slot is still down
C18_UpPurgesDownRearms ==
  /\ [][\A i \in Indexes :
          \A ev \in Delivered(log[i], log'[i], i \in DOMAIN downPages, i \in DOMAIN downPages') :
            ev.e = "up" /\ ev.t \in Keys => Purged(ev.t, i, ev.p)']_vars
  /\ [](\A k \in Keys :
          /\ \A pr \in DOMAIN pressTimeoutIds[k] :
               OfThisPress(k, pr, pressTimeoutIds[k][pr], PRESS_TIME[k])
          /\ \A pr \in DOMAIN keyHoldTimeoutIds[k] :
               OfThisPress(k, pr, keyHoldTimeoutIds[k][pr], HOLD_TIME[k][1]))

\* Slot 1 has been released before a tick passed, while the hold and the
\* press timer of k1 were pending, and slot 0 is down: k1 has got the up
\* of slot 1 and keeps nothing for it, and its timers for slot 0 have
\* their whole time to run
C18_Witness ==
  /\ HOLD_TIME["k1"] = <<MaxHoldTime>>
  /\ 0 \in DOMAIN downPages
  /\ 1 \notin DOMAIN downPages
  /\ \E n \in 1 .. Len(log[1]) : log[1][n].e = "up" /\ log[1][n].t = "k1"
  /\ elapsed[1] = 0
  /\ Purged("k1", 1, "p1")
  /\ pressTimeoutIds["k1"] = (<<0, "p1">> :> MaxPressTime)
  /\ keyHoldTimeoutIds["k1"] = (<<0, "p1">> :> MaxHoldTime)

\* A step delivers event e for slot i and page p to key k
Gets(k, e, i, p, before, after, wasDown, isDown) ==
  \E ev \in Delivered(before, after, wasDown, isDown) : ev.t = k /\ ev.e = e /\ ev.p = p

\* What a step does to the pressed flag of key k for slot i and page p:
\* the flag is set by a down of the pair on the key and only by it; it is
\* cleared by an up of the pair on the key and by the press timer of the
\* pair firing, and, where others holds, only by these; and the step that
\* clears it for one of these two pushes a render job of the key
PressedStep(k, i, p, was, is, down, up, fired, others) ==
  /\ is /\ ~was => down
  /\ down => is
  /\ up \/ fired => ~is
  /\ was /\ ~is => up \/ fired \/ others
  /\ was /\ ~is /\ (up \/ fired) =>
       \E n \in 1 .. Len(lastJobs'.pushed) :
         lastJobs'.pushed[n].kind = "key" /\ lastJobs'.pushed[n].of = k

\* The press timer of key k for the pair pr is due
PressTimerDue(k, pr) == pr \in DOMAIN pressTimeoutIds[k] /\ pressTimeoutIds[k][pr] = 0

ReleasedTo(evs, page, key) ==
  LET Got(t, es) == \E ev \in evs : ev.t = t /\ ev.e \in es
  IN /\ \A ev \in evs : ev.e \in {"up", "click", "held"} =>
            ev.t \in {page, key} /\ ev.p = page
     /\ page # Undefined => Got(page, {"up"}) /\ Got(page, {"click", "held"})
     /\ key # Undefined => Got(key, {"up"}) /\ Got(key, {"click", "held"})

\* C20: the step in which a slot goes up delivers up and click or held
\* to the page that had the focus and to the key that was attached when
\* the slot went down, wherever the focus is now, and to nobody else
C20_ReleaseGoesToDownPair ==
  [][\A i \in Indexes :
       i \in DOMAIN downPages /\ i \notin DOMAIN downPages' =>
         ReleasedTo(Delivered(log[i], log'[i], TRUE, FALSE), downPages[i], downKeys[i])]_vars

\* C21: the hold, up, click and held that the observers of a page got for
\* a slot name the key the page held at the slot when it went down, and
\* the click or held a page forwards goes to that key
C21_PageNamesDownKey ==
  \A i \in Indexes : \A n \in 1 .. Len(log[i]) :
    LET ev == log[i][n] IN
      /\ ev.t \in Pages /\ ev.e \in {"hold", "up", "click", "held"} => ev.k = PressKey(i)
      /\ ev.t \in Keys /\ ev.e \in {"click", "held"} /\ ev.src = "page" => ev.t = PressKey(i)

\* C22: the observers of a page or key that got click or held for a slot
\* had got the up of that release before
C22_UpBeforeClickOrHeld ==
  \A i \in Indexes : \A n \in 1 .. Len(log[i]) :
    log[i][n].t \in Pages \cup Keys /\ log[i][n].e \in {"click", "held"} =>
      \E m \in 1 .. (n - 1) : log[i][m].t = log[i][n].t /\ log[i][m].e = "up"

\* The detach notifications of the call that has returned for slot i of
\* page p and key k that entity t got
DetachedNotes(call, t, i, p, k) ==
  {n \in 1 .. Len(call.notes) :
     call.notes[n] = [t |-> t, e |-> "detach", i |-> i, p |-> p, k |-> k]}

\* C23: when Key.destroy has returned the key is attached nowhere, and
\* when Page.destroy has returned the page holds no key; for each
\* attachment the call removed, the device, the page and the key got one
\* detach notification
C23_DestroyDetaches ==
  [][/\ lastCall'.op = "destroyKey" /\ ~lastCall'.thrown =>
          \A p \in Pages, i \in Indexes :
            /\ KeysGet(keys'[p], i) # lastCall'.k
            /\ KeysGet(keys[p], i) = lastCall'.k =>
                 \A t \in {SD, p, lastCall'.k} :
                   Cardinality(DetachedNotes(lastCall', t, i, p, lastCall'.k)) = 1
     /\ lastCall'.op = "destroyPage" /\ ~lastCall'.thrown =>
          /\ keys'[lastCall'.p] = <<>>
          /\ \A i \in Indexes : LET k == KeysGet(keys[lastCall'.p], i) IN
               k # Undefined =>
                 \A t \in {SD, lastCall'.p, k} :
                   Cardinality(DetachedNotes(lastCall', t, i, lastCall'.p, k)) = 1]_vars

\* Key.destroy of k1, which was attached at two slots of p1 and one of
\* p2, has returned: k1 got three detach notifications
C23_Witness ==
  /\ lastCall.op = "destroyKey"
  /\ lastCall.k = "k1"
  /\ ~lastCall.thrown
  /\ destroyed["k1"]
  /\ \A i \in Indexes : Cardinality(DetachedNotes(lastCall, "k1", i, "p1", "k1")) = 1
  /\ \E i \in Indexes : Cardinality(DetachedNotes(lastCall, "k1", i, "p2", "k1")) = 1

\* C24: when Key.destroy of a key has returned, an Image it had as its
\* image and that another key has as its image too is not destroyed and
\* has the frames it had, the other key still listens to its frame
\* updates, and its animation timer is pending if it was
C24_SharedImageSurvives ==
  [][lastCall'.op = "destroyKey" /\ ~lastCall'.thrown =>
       \A k \in Keys \ {lastCall'.k} :
         LET im == image[k] IN
           im # Undefined /\ image[lastCall'.k] = im /\ ~destroyed[k] =>
             /\ ~imageDestroyed'[im]
             /\ frames'[im] = frames[im]
             /\ image'[k] = im
             /\ \E n \in 1 .. Len(listeners'[im]) : listeners'[im][n] = k
             /\ nextFrameTimeoutId[im] = "pending" => nextFrameTimeoutId'[im] = "pending"]_vars

\* k1 has been destroyed while k2 shares its image: the animation timer
\* of the Image is pending and k2 is its only listener
C24_Witness ==
  /\ lastCall.op = "destroyKey"
  /\ lastCall.k = "k1"
  /\ destroyed["k1"]
  /\ image["k2"] = Shared
  /\ listeners[Shared] = <<"k2">>
  /\ nextFrameTimeoutId[Shared] = "pending"
  /\ currentFrame[Shared] = 1

\* The slot a detachKey call names, <<>> when it names none
DetachSlot(c) ==
  IF c.op = "detachKeyAt" THEN <<RowColumnIndex(c.i[1], c.i[2])>> ELSE c.i

\* A detachKey call names an attachment the page has: an entry at the
\* index it gives (any index when it gives none) whose key is the key it
\* gives (any key when it gives none)
NamesAttachment(c, ks) ==
  \E n \in 1 .. Len(ks) :
    /\ DetachSlot(c) = <<>> \/ ks[n][1] = DetachSlot(c)[1]
    /\ c.k = Undefined \/ ks[n][2] = c.k

\* C25: a detachKey call for a pair that has no attachment, or for a key
\* that is not attached at the pair, changes no attachment of any page
\* and emits detach on nothing
C25_DetachOfNothingIsNoOp ==
  [][/\ lastCall'.op \in {"detachKey", "detachKeyAt"}
     /\ ~NamesAttachment(lastCall', keys[lastCall'.p])
     => /\ keys' = keys
        /\ \A n \in 1 .. Len(lastCall'.notes) : lastCall'.notes[n].e # "detach"]_vars

\* detachKey(index, key) has returned for an index of the page at which
\* another key is attached, and for an index at which none is
C25_Witness ==
  /\ lastCall.op = "detachKey"
  /\ ~lastCall.thrown
  /\ lastCall.i # <<>>
  /\ lastCall.k \in Keys
  /\ KeysGet(keys[lastCall.p], lastCall.i[1]) \in Keys \ {lastCall.k}
  /\ lastCall.notes = <<>>


\* The pairs of page p other than index i keep their keys in the step
OtherSlotsKept(p, i) ==
  \A x \in Pairs : x # <<i, p>> => KeysGet(keys'[x[2]], x[1]) = KeysGet(keys[x[2]], x[1])

\* C26: attachKey(row, column, key) on a page attaches the key at index
\* column - 1 + (row - 1) * PANEL_COLUMN_COUNT, and detachKey(index [, key])
\* with that index, like detachKey(row, column, key), removes the
\* attachment at that index and no other
C26_RowColumnRoundTrip ==
  [][LET c == lastCall'
         at == (c.i[2] - 1) + (c.i[1] - 1) * PANEL_COLUMN_COUNT
     IN /\ c.op = "attachKeyAt" /\ ~destroyed[c.p] /\ ~destroyed[c.k] =>
             KeysGet(keys'[c.p], at) = c.k /\ OtherSlotsKept(c.p, at)
        /\ c.op = "detachKeyAt" /\ ~destroyed[c.p] /\ c.k \in Keys
             /\ KeysGet(keys[c.p], at) = c.k =>
             ~KeysHas(keys'[c.p], at) /\ OtherSlotsKept(c.p, at)
        /\ c.op = "detachKey" /\ ~destroyed[c.p] /\ c.i # <<>>
             /\ KeysGet(keys[c.p], c.i[1]) \in Keys /\ c.k \in {Undefined, KeysGet(keys[c.p], c.i[1])} =>
             ~KeysHas(keys'[c.p], c.i[1]) /\ OtherSlotsKept(c.p, c.i[1])]_vars

\* The same for the calls that find the slot they attach at free
C26_RowColumnRoundTripOfFreeSlot ==
  [][LET c == lastCall'
         at == (c.i[2] - 1) + (c.i[1] - 1) * PANEL_COLUMN_COUNT
     IN /\ c.op = "attachKeyAt" /\ ~destroyed[c.p] /\ ~destroyed[c.k]
             /\ ~KeysHas(keys[c.p], at) =>
             KeysGet(keys'[c.p], at) = c.k /\ OtherSlotsKept(c.p, at) /\ ~c.thrown
        /\ c.op = "detachKeyAt" /\ ~destroyed[c.p] /\ c.k \in Keys
             /\ KeysGet(keys[c.p], at) = c.k =>
             ~KeysHas(keys'[c.p], at) /\ OtherSlotsKept(c.p, at) /\ ~c.thrown
        /\ c.op = "detachKey" /\ ~destroyed[c.p] /\ c.i # <<>>
             /\ KeysGet(keys[c.p], c.i[1]) \in Keys /\ c.k \in {Undefined, KeysGet(keys[c.p], c.i[1])} =>
             ~KeysHas(keys'[c.p], c.i[1]) /\ OtherSlotsKept(c.p, c.i[1])]_vars

\* What Image.getFrame is to return: the frame at currentFrame when it is
\* loaded, else the frame loaded last, null when none is
FrameToGet(im) ==
  IF frames[im] > currentFrame[im] THEN <<currentFrame[im]>>
  ELSE IF frames[im] > 0 THEN <<frames[im] - 1>>
  ELSE <<>>

C29_CurrentFrameInRange ==
  \A im \in Images : 0 <= currentFrame[im] /\ currentFrame[im] < frameCount[im]

\* nextFrame has been called on an Image of MaxFrameCount frames that
\* setCurrentFrame has moved since its load began and that is on frame 0
\* of its second loop
C29_Witness ==
  /\ frameCount[Animated] = MaxFrameCount
  /\ currentFrame[Animated] = 0
  /\ currentLoop[Animated] = 1
  /\ advances[Animated] = <<>>
  /\ lastCall.op = "nextFrame"

\* What a frame getter of a key or page is to return for Image im in the
\* slot: null when no image is set or the image has no frame loaded,
\* else a frame of that image
FrameOfSlot(im, ret) ==
  IF im = Undefined \/ frames[im] = 0 THEN ret = <<>> ELSE ret \in {<<>>, <<im>>}

\* C28: Key.getFrame, Key.getBackgroundFrame and Page.getBackgroundFrame
\* return null when no image is set in the slot or the image set in it has
\* no frame loaded, and return no frame of another image than the one set
C28_FrameOfImageSet ==
  /\ lastCall.op = "getKeyFrame" /\ ~lastCall.thrown =>
       FrameOfSlot(image[lastCall.k], lastCall.ret)
  /\ lastCall.op = "getBackgroundFrame" /\ ~lastCall.thrown =>
       FrameOfSlot(backgroundImage[lastCall.k], lastCall.ret)

\* The same of the slots whose image has a frame loaded
C28_FrameOfLoadedImageSet ==
  /\ lastCall.op = "getKeyFrame" /\ ~lastCall.thrown
       /\ image[lastCall.k] # Undefined /\ image[lastCall.k] \in loaded =>
       lastCall.ret = <<image[lastCall.k]>>
  /\ lastCall.op = "getBackgroundFrame" /\ ~lastCall.thrown
       /\ backgroundImage[lastCall.k] # Undefined /\ backgroundImage[lastCall.k] \in loaded =>
       lastCall.ret = <<backgroundImage[lastCall.k]>>

\* The focused page and the default page are pages that have not been
\* destroyed, after the step
FocusOnLivePages ==
  /\ focusedPage' \in Pages \cup {Undefined}
  /\ focusedPage' \in Pages => ~destroyed'[focusedPage']
  /\ defaultPage' \in Pages => ~destroyed'[defaultPage']

\* C30 as stated: one page at most has focus, neither it nor the default
\* page is a destroyed page, and when Page.destroy or Page.blur is called
\* on the focused page the focus goes to the default page if there is one
\* and it is another page, to no page otherwise
C30_FocusFallsToOtherDefault ==
  [][/\ FocusOnLivePages
     /\ lastCall'.op \in {"destroyPage", "blur"} /\ focusedPage = lastCall'.p =>
          focusedPage' = IF defaultPage \in Pages \ {lastCall'.p} THEN defaultPage
                         ELSE Undefined]_vars

\* C30, amended: the same, but Page.blur on a focused page that is the
\* default page leaves it focused
C30_FocusFallsToDefault ==
  [][/\ FocusOnLivePages
     /\ lastCall'.op = "destroyPage" /\ focusedPage = lastCall'.p =>
          focusedPage' = IF defaultPage \in Pages \ {lastCall'.p} THEN defaultPage
                         ELSE Undefined
     /\ lastCall'.op = "destroyPage" /\ defaultPage = lastCall'.p =>
          defaultPage' = Undefined
     /\ lastCall'.op = "blur" /\ focusedPage = lastCall'.p =>
          focusedPage' = defaultPage]_vars

\* Page.destroy of the focused page has returned and the default page,
\* another page with a key attached, has got the focus
C30_Witness ==
  /\ lastCall.op = "destroyPage"
  /\ ~lastCall.thrown
  /\ destroyed[lastCall.p]
  /\ defaultPage \in Pages \ {lastCall.p}
  /\ focusedPage = defaultPage
  /\ focusedPage \in lastJobs.activity
  /\ keys[focusedPage] # <<>>

\* The brightness that governs: the one of the focused page when it has
\* one, the one of the device otherwise
GoverningBrightness ==
  IF focusedPage # Undefined /\ brightness[focusedPage] # <<>>
  THEN brightness[focusedPage][1] ELSE brightness[SD][1]

\* C31: the brightness last sent to the device is 100 times the governing
\* brightness, rounded to the nearest integer, and is within 0 .. 100
C31_NodeBrightnessFollows ==
  /\ nodeBrightness \in 0 .. 100
  /\ 10 * nodeBrightness - 5 <= GoverningBrightness
  /\ GoverningBrightness < 10 * nodeBrightness + 5

\* The device has been given a brightness while the focused page has its
\* own, which governs and rounds up to 1 percent
C31_Witness ==
  /\ lastCall.op = "setBrightness"
  /\ lastCall.p = SD
  /\ ~lastCall.thrown
  /\ brightness[SD] = <<0>>
  /\ focusedPage # Undefined
  /\ brightness[focusedPage] = <<5>>
  /\ nodeBrightness = 1

----------------------------------------------------------------------------
(* Calls on what has been destroyed *)

\* The entity a call is made on: the Image, the key, the page or the device
CallOnImage(c) ==
  c.op \in {"on", "off", "removeAllListeners", "startAnimation", "stopAnimation",
            "nextFrame", "setCurrentFrame", "resetAnimation", "getFrame", "destroyImage"}
CallTarget(c) ==
  IF c.op \in {"setImage", "setBackgroundImage", "getKeyFrame", "getBackgroundFrame",
               "draw", "destroyKey"} THEN c.k
  ELSE IF c.op \in {"attachKey", "attachKeyAt", "detachKey", "detachKeyAt", "blur",
                    "setBrightness", "destroyPage"} THEN c.p
  ELSE SD

\* The call c is made on an entity that is destroyed
OnDestroyed(c) ==
  /\ c.op # "none"
  /\ IF CallOnImage(c) THEN imageDestroyed[c.img] ELSE destroyed[CallTarget(c)]

\* What the program keeps: everything but the record of the last step
programVars == <<cfgVars, imageVars, focusedPage, defaultPage, brightness, nodeBrightness,
                 keys, destroyed, sdHoldTimeoutIds, downPages, downKeys, sdHoldIndexes,
                 pageHoldTimeoutIds, downIndexes, pageHoldIndexes, keyHoldTimeoutIds,
                 pressTimeoutIds, downStates, holdStates, pressStates, idleTimeoutId,
                 image, backgroundImage, listeners, gq, running, tasks, inflight,
                 loaded, frame, backgroundFrame>>

\* The calls that return without an error on a destroyed entity
Lenient == {"draw", "stopAnimation", "nextFrame", "off", "removeAllListeners"}

----------------------------------------------------------------------------
(* click and held of a scope with its own hold duration *)

\* The notification x comes from the handler of the page or key it is
\* emitted on
FromOwnHandler(x) == x.src = (IF x.t \in Keys THEN "key" ELSE "page")

\* C33 as stated: a page or key emits held or click from its own up handler
\* only if its hold duration is not 0, so a key whose own duration is 0
\* emits neither when released
C33_DisabledEmitsNeither ==
  \A i \in Indexes : \A n \in 1 .. Len(log[i]) :
    LET x == log[i][n]
    IN x.e \in {"click", "held"} /\ FromOwnHandler(x) => Positive(HOLD_TIME[x.t])

\* C33 amended: a page or key emits held or click from its own up handler
\* only if its own hold duration is defined, 0 included; a scope whose
\* duration is 0 never emits held, and a key whose own duration is 0, kept
\* on its pair, emits click from its own handler when it is released
C33_OwnHandlerWhenDefined ==
  \A i \in Indexes :
    /\ \A n \in 1 .. Len(log[i]) :
         LET x == log[i][n]
         IN /\ x.e \in {"click", "held"} /\ FromOwnHandler(x) => IsNumber(HOLD_TIME[x.t])
            /\ HOLD_TIME[x.t] = <<0>> => x.e # "held"
            /\ x.e \in {"click", "held"} /\ IsNumber(HOLD_TIME[x.t]) => FromOwnHandler(x)
    /\ KeptPress(i) /\ HOLD_TIME[PressKey(i)] = <<0>> =>
         /\ Seen(i, PressKey(i), {"click"}) # {}
         /\ Seen(i, PressKey(i), {"held"}) = {}

\* C33 witness: a key whose own hold duration is 0, on a device that holds,
\* has been released after the hold duration of the device and has emitted
\* click from its own handler
C33_Witness ==
  \E i \in Indexes :
    /\ KeptPress(i)
    /\ HOLD_TIME[PressKey(i)] = <<0>>
    /\ Positive(HOLD_TIME[SD])
    /\ elapsed[i] >= HOLD_TIME[SD][1]
    /\ \E n \in Seen(i, PressKey(i), {"click"}) : log[i][n].src = "key"

----------------------------------------------------------------------------
(* Calls an Image does not serve *)

\* setCurrentFrame(f) of call c has no such frame to go to
NoSuchFrame(c) ==
  frameCount[c.img] <= 1 \/ c.i[1] < 0 \/ c.i[1] >= frameCount[c.img]

\* C34: setCurrentFrame(f) on a live Image throws and leaves the current
\* frame, the current loop and the timer of the next frame as they were when
\* the Image has at most one frame or f is not one of its frames, and sets
\* the current frame otherwise; startAnimation() on a live Image with at
\* most one frame returns, changes nothing of the Image and sets no timer
C34_RejectedCallsChangeNothing ==
  [][/\ lastCall'.op = "setCurrentFrame" /\ ~imageDestroyed[lastCall'.img] =>
          IF NoSuchFrame(lastCall')
          THEN /\ lastCall'.thrown
               /\ UNCHANGED <<imageVars, listeners, gq, running, tasks, inflight>>
          ELSE /\ ~lastCall'.thrown
               /\ currentFrame'[lastCall'.img] = lastCall'.i[1]
     /\ lastCall'.op = "startAnimation" /\ ~imageDestroyed[lastCall'.img]
          /\ frameCount[lastCall'.img] <= 1 =>
          /\ ~lastCall'.thrown
          /\ UNCHANGED <<imageVars, listeners, gq, running, tasks, inflight>>]_vars

\* C34 witness: setCurrentFrame(2) on an animating Image of two frames whose
\* timer is pending has thrown
C34_Witness ==
  /\ lastCall.op = "setCurrentFrame"
  /\ lastCall.thrown
  /\ lastCall.i = <<2>>
  /\ frameCount[Animated] = 2
  /\ ~imageDestroyed[Animated]
  /\ animate[Animated] = <<TRUE>>
  /\ nextFrameTimeoutId[Animated] = "pending"

----------------------------------------------------------------------------
(* Writes and the focus *)

\* C35: the buffer a render job hands to STREAMDECK_NODE when one of its
\* compositions ends carries the content of the page that holds the focus
\* then: no job writes the content of a page that has lost the focus, and
\* nothing is written while no page has it
C35_WritesOnlyForFocusedPage ==
  [][\A t \in tasks \ tasks' : t.w.page = focusedPage]_vars

----------------------------------------------------------------------------
(* attachKey on a slot that has a key *)

\* C36: attachKey(index, key) on a live page whose slot holds another key
\* returns without an exception with the new key at the slot; the key that
\* was there has received detach for the pair and keeps no down, hold or
\* press state and no pending hold or press timer for it
C36_AttachReplaces ==
  [][LET c == lastCall'
     IN /\ c.op = "attachKey"
        /\ c.i # <<>>
        /\ ~destroyed[c.p]
        /\ ~destroyed[c.k]
        /\ KeysHas(keys[c.p], c.i[1])
        /\ KeysGet(keys[c.p], c.i[1]) # c.k
        => LET previous == KeysGet(keys[c.p], c.i[1])
           IN /\ ~c.thrown
              /\ KeysGet(keys'[c.p], c.i[1]) = c.k
              /\ \E n \in 1 .. Len(c.notes) :
                   c.notes[n] = [t |-> previous, e |-> "detach", i |-> c.i[1],
                                 p |-> c.p, k |-> previous]
              /\ <<c.i[1], c.p>> \notin downStates'[previous] \cup holdStates'[previous]
                                          \cup pressStates'[previous]
              /\ <<c.i[1], c.p>> \notin DOMAIN keyHoldTimeoutIds'[previous]
                                          \cup DOMAIN pressTimeoutIds'[previous]]_vars

----------------------------------------------------------------------------
(* What the job of a key draws *)

\* The write w is one of a job of Key.draw
OfKeyJob(w) == w.via = "job" /\ w.of \in Keys

\* C37: what a job of Key.draw composes or writes when it is called is,
\* for each slot of its key on the focused page, the scaled variant exactly
\* when the key is pressed at that slot on that page and its frame has a
\* scaled variant, and the base variant otherwise; it is a clear of the
\* slot exactly when the key has no frame and no background frame and the
\* page has no background frame
C37_ScaledWhenPressed ==
  [][LET composed == {t.w : t \in tasks' \ tasks}
         written == {inflight'[n] : n \in 1 .. Len(inflight')}
                      \ ({inflight[n] : n \in 1 .. Len(inflight)} \cup {t.w : t \in tasks})
     IN \A w \in {x \in composed \cup written : OfKeyJob(x)} :
          /\ w.page = focusedPage'
          /\ KeysGet(keys'[w.page], w.at[1]) = w.of
          /\ w.variant = "scaled"
               <=> /\ <<w.at[1], w.page>> \in pressStates'[w.of]
                   /\ frame'[w.of] \in ScaledImages
          /\ w.op = "clearKey"
               <=> /\ frame'[w.of] = Undefined
                   /\ backgroundFrame'[w.of] = Undefined
                   /\ backgroundFrame'[w.page] = Undefined]_vars

\* C37 witness: k1 shows imgA and is pressed at slot 0 only; its job
\* composes the scaled variant for slot 0 and the base variant for slot 1
C37_Witness ==
  /\ pressStates["k1"] = {<<0, "p1">>}
  /\ frame["k1"] = "imgA"
  /\ \E t \in tasks : t.w.of = "k1" /\ t.w.at = <<0>> /\ t.w.variant = "scaled"
  /\ \E t \in tasks : t.w.of = "k1" /\ t.w.at = <<1>> /\ t.w.variant = "base"

----------------------------------------------------------------------------
(* An advance to a frame that is still loading *)

\* nextFrame() of call c goes to a frame that is not loaded yet
WaitsForFrame(c) ==
  LET im == c.img
      wraps == currentFrame[im] + 1 >= frameCount[im]
      target == IF wraps THEN 0 ELSE currentFrame[im] + 1
  IN /\ c.op = "nextFrame"
     /\ ~imageDestroyed[im]
     /\ frameCount[im] > 1
     /\ ~(wraps /\ loopCount[im] > 0 /\ currentLoop[im] >= loopCount[im])
     /\ frames[im] <= target

\* The frame one loadListener of the Image waits for is loaded in the step
TargetLoaded(im) ==
  /\ frames'[im] = frames[im] + 1
  /\ Len(loadListeners[im]) = 1
  /\ loadListeners[im][1].f = frames[im]

\* C38: nextFrame() to a frame that is not loaded leaves the current frame
\* and loop as they are; the step that loads the frame makes it the current
\* frame, with the loop of the advance, emits frameUpdated once, so that a
\* key that shows the Image is drawn once, and leaves the timer of the next
\* frame set exactly when the Image animates and has listeners
C38_PendingAdvance ==
  [][/\ WaitsForFrame(lastCall') => UNCHANGED <<currentFrame, currentLoop>>
     /\ TargetLoaded(Animated) =>
          /\ currentFrame'[Animated] = frames[Animated]
          /\ currentLoop'[Animated] = loadListeners[Animated][1].l
          /\ loadListeners'[Animated] = <<>>
          /\ listeners[Animated] = <<"k1">> => Len(lastJobs'.pushed) = 1
          /\ nextFrameTimeoutId'[Animated] = "pending"
               <=> animate'[Animated] = <<TRUE>> /\ listeners'[Animated] # <<>>]_vars

----------------------------------------------------------------------------
(* The animation that starts by itself *)

\* The Image begins to animate in the step, and not by startAnimation()
StartsByItself(im) ==
  /\ animate[im] # <<TRUE>>
  /\ animate'[im] = <<TRUE>>
  /\ lastCall'.op # "startAnimation"

----------------------------------------------------------------------------
(* attachKey without a slot *)

\* C40: attachKey(key) on a live page attaches a live key at the lowest
\* slot that has no key, emits attach for that slot on the device, the page
\* and the key, and leaves the other slots as they are; when every slot has
\* a key it throws, leaves the keys of every page as they are and emits no
\* attach or detach
C40_AttachAtFirstFreeSlot ==
  [][LET c == lastCall'
     IN c.op = "attachKey" /\ c.i = <<>> /\ ~destroyed[c.p] =>
          IF \A i \in Indexes : KeysHas(keys[c.p], i)
          THEN /\ c.thrown
               /\ c.notes = <<>>
               /\ UNCHANGED <<keys, downStates, holdStates, pressStates, gq, running,
                              tasks, inflight>>
          ELSE ~destroyed[c.k] =>
               \E i \in Indexes :
                 /\ ~KeysHas(keys[c.p], i)
                 /\ \A j \in Indexes : j < i => KeysHas(keys[c.p], j)
                 /\ ~c.thrown
                 /\ KeysGet(keys'[c.p], i) = c.k
                 /\ \A x \in Pairs : x # <<i, c.p>> =>
                      KeysGet(keys'[x[2]], x[1]) = KeysGet(keys[x[2]], x[1])
                 /\ c.notes = << [t |-> SD, e |-> "attach", i |-> i, p |-> c.p, k |-> c.k],
                                 [t |-> c.p, e |-> "attach", i |-> i, p |-> c.p, k |-> c.k],
                                 [t |-> c.k, e |-> "attach", i |-> i, p |-> c.p, k |-> c.k] >>]_vars

\* C40 witness: attachKey(key) on a page whose slots all have a key has
\* thrown
C40_Witness ==
  /\ lastCall.op = "attachKey"
  /\ lastCall.i = <<>>
  /\ lastCall.thrown
  /\ ~destroyed[lastCall.p]
  /\ ~destroyed[lastCall.k]
  /\ \A i \in Indexes : KeysHas(keys[lastCall.p], i)

====
